---------------------------- MODULE Spec2Model ----------------------------
(***************************************************************************)
(* A model of the Specify middleman API (app/specify): the schema merger   *)
(* (merge.py, FieldModel/Column in api.py), the cache key canonicaliser    *)
(* (deephash), the coordinator's model synchronisation and the federating  *)
(* pager (CombinedApi.query in controller.py).                             *)
(*                                                                         *)
(* Python values are represented as follows.  None (as a dict value) is    *)
(* the integer None = -1, which no display index takes; None as a dict key *)
(* is the string NoneK; the boolean False held by merge's `found` is the   *)
(* string FoundFalse.  Lists are sequences; Python's 0-based indices are   *)
(* kept in the state and shifted by one where a sequence is read.          *)
(***************************************************************************)
EXTENDS Integers, Sequences, FiniteSets, TLC

(***************************************************************************)
(* Bounds of the model.                                                    *)
(***************************************************************************)
\* largest displaycolidx a backend reports
MaxIdx == 2

\* how many times the backends change (schema or discovery page)
MaxEnvChanges == 1

\* how many times a re-discovery schedules start()
MaxRestarts == 1

\* how many model(poke=True) calls are made
MaxPokes == 1

None == 0 - 1
NoneK == "None"
FoundFalse == "False"

(***************************************************************************)
(* Generic list helpers.                                                   *)
(***************************************************************************)
Range(s) == {s[i] : i \in 1..Len(s)}

Max2(x, y) == IF x >= y THEN x ELSE y

SetMax(S) == CHOOSE x \in S : \A y \in S : y <= x

\* s[0:n] of Python
Take(s, n) == IF n <= 0 THEN << >> ELSE SubSeq(s, 1, IF n < Len(s) THEN n ELSE Len(s))

\* s[n:] of Python, n >= 0
Drop(s, n) == IF n >= Len(s) THEN << >> ELSE SubSeq(s, n + 1, Len(s))

\* list.insert(i, e), 0 <= i; an index past the end appends
ListInsert(s, i, e) == Take(s, i) \o <<e>> \o Drop(s, i)

\* the one element of a singleton set; The({F(x) : x \in {e}}) is F(e) with
\* e evaluated once
The(S) == CHOOSE r \in S : TRUE

\* all duplicate-free sequences over S of length at most n
InjSeqs(S, n) ==
    {s \in UNION {[1..m -> S] : m \in 0..n} :
        \A i, j \in 1..Len(s) : i # j => s[i] # s[j]}

(***************************************************************************)
(* merge.py: sort_place                                                    *)
(***************************************************************************)
\* entries are records [k |-> key, v |-> value]; the key order is Python's
\* string order on the names used
KeyNames == <<"collection", "x", "y", "z">>

KeyRank(k) == CHOOSE i \in 1..Len(KeyNames) : KeyNames[i] = k

\* the numbered entries sorted in descending order, the reverse of sorted()
RECURSIVE SortedByValueDesc(_)
SortedByValueDesc(aa) ==
    IF aa = << >> THEN << >>
    ELSE LET front == SortedByValueDesc(Take(aa, Len(aa) - 1))
             e == aa[Len(aa)]
             n == Cardinality({i \in 1..Len(front) : front[i].v >= e.v})
         IN  ListInsert(front, n, e)

\* sorted(aa, key=value): stable, so an entry goes after every entry whose
\* value is not larger
RECURSIVE SortedByValue(_)
SortedByValue(aa) ==
    IF aa = << >> THEN << >>
    ELSE LET front == SortedByValue(Take(aa, Len(aa) - 1))
             e == aa[Len(aa)]
             n == Cardinality({i \in 1..Len(front) : front[i].v <= e.v})
         IN  ListInsert(front, n, e)

\* the (key, original index) pairs of the None-valued entries, in input order
NonePlaces(a) == SelectSeq([i \in 1..Len(a) |-> [k |-> a[i].k, c |-> i - 1, isnone |-> a[i].v = None]],
                           LAMBDA n : n.isnone)

NumberedOf(a) == SelectSeq(a, LAMBDA e : e.v # None)

\* the None-valued entries put after the numbered ones
PlaceNonesLast(sa, na) == sa \o [i \in 1..Len(na) |-> [k |-> na[i].k, v |-> None]]

RECURSIVE PlaceNones(_, _)
PlaceNones(sa, na) ==
    IF na = << >> THEN sa
    ELSE PlaceNones(ListInsert(sa, na[1].c, [k |-> na[1].k, v |-> None]), Tail(na))

sort_place(a) == PlaceNones(SortedByValue(NumberedOf(a)), NonePlaces(a))

(***************************************************************************)
(* merge.py: merge.  The loop state is a record m; one operator per branch *)
(* of the loop body.                                                       *)
(***************************************************************************)
NoneEntry == [k |-> NoneK, v |-> None]

\* `try: x = a[ai] / except: x = {None: None}`; a negative index counts
\* from the end as Python's does
EntryAt(l, i) ==
    IF 0 <= i /\ i < Len(l) THEN l[i + 1]
    ELSE IF i < 0 /\ 0 - i <= Len(l) THEN l[Len(l) + i + 1]
    ELSE NoneEntry

BkPut(bk, k, v) == [x \in (DOMAIN bk) \cup {k} |-> IF x = k THEN v ELSE bk[x]]

\* a variant of the emission that lets the counter number a None entry
EmitNumbersNone(acc, p, pv) ==
    LET nd == IF acc.d = None \/ (pv # None /\ acc.d < pv) THEN pv ELSE acc.d
    IN  [ret |-> Append(acc.ret, [k |-> p, v |-> nd]),
         d   |-> IF nd # None THEN nd + 1 ELSE nd,
         err |-> acc.err]

\* `if None in [pv, d] or d < pv: d = pv`, `ret.append({p: d})`,
\* `if d is not None: d += 1`
Emit(acc, p, pv) ==
    LET nd == IF pv = None \/ acc.d = None \/ acc.d < pv THEN pv ELSE acc.d
    IN  [ret |-> Append(acc.ret, [k |-> p, v |-> nd]),
         d   |-> IF nd # None THEN nd + 1 ELSE nd,
         err |-> acc.err]

\* the emission of a cropped window: pv = bk[p], a KeyError when p is not in bk
RECURSIVE EmitAll(_, _, _)
EmitAll(acc, ps, bk) ==
    IF ps = << >> \/ acc.err THEN acc
    ELSE IF ps[1] \notin DOMAIN bk
         THEN [acc EXCEPT !.err = TRUE]
         ELSE EmitAll(Emit(acc, ps[1], bk[ps[1]]), Tail(ps), bk)

MergeStart(a, b) ==
    [a |-> sort_place(a), b |-> sort_place(b), ai |-> 0, bi |-> 0, d |-> None,
     wina |-> << >>, winb |-> << >>, bk |-> [x \in {} |-> None],
     conflict |-> FALSE, ret |-> << >>, pc |-> "loop"]

\* `if xk is None and yk is None and not conflict: break`
MergeAtEnd(m) ==
    /\ EntryAt(m.a, m.ai).k = NoneK
    /\ EntryAt(m.b, m.bi).k = NoneK
    /\ ~m.conflict

\* no conflict, equal keys
MergeMatched(m) ==
    LET x == EntryAt(m.a, m.ai)
        y == EntryAt(m.b, m.bi)
        cand == {v \in {x.v, y.v, m.d} : v # None /\ v # 0}
        same == Emit([ret |-> m.ret, d |-> m.d, err |-> FALSE], x.k, x.v)
    IN  IF x.v = y.v
        THEN [m EXCEPT !.ret = same.ret, !.d = same.d,
                       !.ai = m.ai + 1, !.bi = m.bi + 1]
        ELSE IF cand = {}
             THEN [m EXCEPT !.pc = "error"]
             ELSE [m EXCEPT !.ret = Append(m.ret, [k |-> x.k, v |-> SetMax(cand)]),
                            !.d = SetMax(cand) + 1,
                            !.ai = m.ai + 1, !.bi = m.bi + 1]

\* no conflict, differing keys (or one list ran out): open the windows
MergeOpen(m) ==
    LET x == EntryAt(m.a, m.ai)
        y == EntryAt(m.b, m.bi)
    IN  [m EXCEPT !.conflict = TRUE,
                  !.wina = <<x.k>>, !.winb = <<y.k>>,
                  !.bk = BkPut(BkPut([k \in {} |-> None], x.k, x.v), y.k, y.v),
                  !.ai = m.ai + 1, !.bi = m.bi + 1]

\* the keys of window w before the first occurrence of found
RECURSIVE Cropped(_, _)
Cropped(w, found) ==
    IF w = << >> \/ w[1] = found THEN << >>
    ELSE <<w[1]>> \o Cropped(Tail(w), found)

\* `'' if len(i)==0 else i[0]` compared by sorted(): comparing None raises
WindowKeyBad(pos) == pos # << >> /\ pos[1] = NoneK

\* key(p) < key(q) for the string keys of sorted()
WindowKeyLess(p, q) ==
    IF q = << >> THEN FALSE
    ELSE IF p = << >> THEN TRUE
    ELSE KeyRank(p[1]) < KeyRank(q[1])

\* a conflict is open
MergeWindow(m) ==
    LET x == EntryAt(m.a, m.ai)
        y == EntryAt(m.b, m.bi)
        wina1 == IF x.k # NoneK THEN Append(m.wina, x.k) ELSE m.wina
        winb1 == IF y.k # NoneK THEN Append(m.winb, y.k) ELSE m.winb
        ai1 == IF x.k # NoneK THEN m.ai + 1 ELSE m.ai
        bi1 == IF y.k # NoneK THEN m.bi + 1 ELSE m.bi
        inb == x.k \in Range(winb1)
        ina == y.k \in Range(wina1)
        found == IF ina THEN y.k ELSE IF inb THEN x.k ELSE FoundFalse
        foundv == IF ina THEN y.v ELSE IF inb THEN x.v ELSE None
        \* `if not found`: False and None are falsy
        notfound == found = FoundFalse \/ found = NoneK
        bk1 == IF notfound THEN BkPut(BkPut(m.bk, x.k, x.v), y.k, y.v) ELSE m.bk
        out == x.k = NoneK /\ y.k = NoneK /\ notfound
        posa == Cropped(wina1, found)
        posb == Cropped(winb1, found)
        wina2 == Drop(wina1, Len(posa) + 1)
        winb2 == Drop(winb1, Len(posb) + 1)
        \* sorted([posa, posb], key=...) is stable: swapped only when
        \* key(posb) < key(posa)
        first == IF WindowKeyLess(posb, posa) THEN posb ELSE posa
        second == IF WindowKeyLess(posb, posa) THEN posa ELSE posb
        wins == EmitAll([ret |-> m.ret, d |-> m.d, err |-> FALSE], first \o second, bk1)
        last == IF out \/ wins.err THEN wins ELSE Emit(wins, found, foundv)
    IN  IF found # FoundFalse \/ out
        THEN IF WindowKeyBad(posa) \/ WindowKeyBad(posb) \/ last.err
             THEN [m EXCEPT !.pc = "error"]
             ELSE [m EXCEPT !.ret = last.ret, !.d = last.d,
                            !.ai = ai1 - Len(wina2), !.bi = bi1 - Len(winb2),
                            !.wina = << >>, !.winb = << >>, !.bk = bk1,
                            !.conflict = FALSE]
        ELSE [m EXCEPT !.wina = wina1, !.winb = winb1, !.ai = ai1, !.bi = bi1,
                       !.bk = bk1]

\* one pass through the body of `while True`
MergeIter(m) ==
    IF MergeAtEnd(m) THEN [m EXCEPT !.pc = "done"]
    ELSE IF m.conflict THEN MergeWindow(m)
    ELSE IF EntryAt(m.a, m.ai).k = EntryAt(m.b, m.bi).k THEN MergeMatched(m)
    ELSE MergeOpen(m)

RECURSIVE MergeRun(_)
MergeRun(m) ==
    IF m.pc # "loop" THEN m ELSE The({MergeRun(n) : n \in {MergeIter(m)}})

\* merge(a, b): the final loop state; .ret is the returned list and
\* .pc = "error" stands for a raised exception
merge(a, b) == The({MergeRun(m0) : m0 \in {MergeStart(a, b)}})

(***************************************************************************)
(* api.py: deephash and the cache keys.                                    *)
(*                                                                         *)
(* A query term is a record [t, s, items]: t = "int" or "str" for a leaf,  *)
(* whose s is the text str() gives for it as a sequence of character       *)
(* codes; t = "list" for a list, whose items are terms.                    *)
(***************************************************************************)
IntLeaf(codes) == [t |-> "int", s |-> codes, items |-> << >>]
StrLeaf(codes) == [t |-> "str", s |-> codes, items |-> << >>]
ListTerm(items) == [t |-> "list", s |-> << >>, items |-> items]

\* "'" "," " " "[" "]" as character codes
Quote == <<39>>
CommaSpace == <<44, 32>>

RECURSIVE JoinCodes(_)
JoinCodes(parts) ==
    IF parts = << >> THEN << >>
    ELSE IF Len(parts) = 1 THEN parts[1]
    ELSE parts[1] \o CommaSpace \o JoinCodes(Tail(parts))

\* repr(x): a string is quoted, a list shows the repr of its items
RECURSIVE Repr(_)
Repr(x) ==
    IF x.t = "int" THEN x.s
    ELSE IF x.t = "str" THEN Quote \o x.s \o Quote
    ELSE <<91>> \o JoinCodes([i \in 1..Len(x.items) |-> Repr(x.items[i])]) \o <<93>>

\* str(x): a string as it is, anything else as repr
Str(x) == IF x.t = "str" THEN x.s ELSE Repr(x)

\* Python's string order: s < t
LexLess(s, t) ==
    \E i \in 1..(Len(t)) :
        /\ \A j \in 1..(i - 1) : j <= Len(s) /\ s[j] = t[j]
        /\ (i > Len(s) \/ s[i] < t[i])

\* sorted(li, key=lambda i: str(i)), stable
RECURSIVE SortedByStr(_)
SortedByStr(li) ==
    IF li = << >> THEN << >>
    ELSE LET front == SortedByStr(Take(li, Len(li) - 1))
             e == li[Len(li)]
             n == Cardinality({i \in 1..Len(front) : ~LexLess(Str(e), Str(front[i]))})
         IN  ListInsert(front, n, e)

\* deephash(li).  In `for b, i in enumerate(a)` b is the index, an int, so
\* `isinstance(b, list)` is never true and no item is replaced: the result
\* is the top-level list sorted by str().
deephash(li) == ListTerm(SortedByStr(li.items))

AscTag(asc) == IF asc THEN IntLeaf(<<48>>) ELSE IntLeaf(<<49>>)

\* SpecifyApi.query_cache_key; sort is a string term, empty for no sort
query_cache_key(queryTerms, sort, asc) ==
    Str(ListTerm(<<AscTag(asc), sort, deephash(queryTerms)>>))

\* sorted(collections) on strings
RECURSIVE SortedStrings(_)
SortedStrings(li) ==
    IF li = << >> THEN << >>
    ELSE LET front == SortedStrings(Take(li, Len(li) - 1))
             e == li[Len(li)]
             n == Cardinality({i \in 1..Len(front) : ~LexLess(e.s, front[i].s)})
         IN  ListInsert(front, n, e)

\* CombinedApi.query_cache_keys
query_cache_keys(queryTerms, collections, sort, asc) ==
    Str(ListTerm(<<ListTerm(SortedStrings(collections)), AscTag(asc), sort,
                   deephash(queryTerms)>>))

(***************************************************************************)
(* api.py: Column and FieldModel.                                          *)
(*                                                                         *)
(* A Column is a record of its model dict; of the fields merged under      *)
(* assert_equal only colname, title and type are kept (sptable, spfld,     *)
(* spfldtitle, treeid and treerank follow the same rule), of those merged  *)
(* under _max_with_none width, colidx and displaycolidx.  advancedsearch   *)
(* is the string the JSON holds, "False" standing for the default False.   *)
(* A FieldModel is a record of its columns, its two lookup dicts (name ->  *)
(* 0-based index), changed_solrnames and _type_casts; bound tells whether  *)
(* set_follow_model has run on it.                                         *)
(***************************************************************************)
COLLECTION_SOLRNAME == "coll"

SOLRTYPE_HEIRARCHY == <<"string", "tdouble", "int", "list">>

SolrTypeIndex(t) == CHOOSE i \in 1..Len(SOLRTYPE_HEIRARCHY) : SOLRTYPE_HEIRARCHY[i] = t

\* Column._determine_type; no title of the model ends with "Date"
DetermineType(solrtype) ==
    CASE solrtype = "int" -> "java.lang.String"
      [] solrtype = "string" -> "java.lang.String"
      [] solrtype = "tdouble" -> "java.math.BigDecimal"
      [] solrtype = "list" -> "java.util.Arrays"

\* Column for a backend column that gives colname, solrname,
\* solrtype, colidx and displaycolidx
NewColumn(colname, solrname, solrtype, colidx, displaycolidx) ==
    [colname |-> colname, solrname |-> solrname,
     solrtype |-> IF solrname = "img" THEN "list" ELSE solrtype,
     title |-> colname,
     type |-> DetermineType(IF solrname = "img" THEN "list" ELSE solrtype),
     width |-> None, colidx |-> colidx, advancedsearch |-> "False",
     displaycolidx |-> displaycolidx]

\* the synthetic column of FieldModel.__init__
CollectionColumn ==
    [colname |-> "collection", solrname |-> COLLECTION_SOLRNAME, solrtype |-> "string",
     title |-> "collection", type |-> "java.lang.String", width |-> None,
     colidx |-> 0, advancedsearch |-> "True", displaycolidx |-> 0]

\* the order of the backend field names as strings
SolrNames == <<"coll", "s1", "s2", "s3">>

SolrRank(n) == CHOOSE i \in 1..Len(SolrNames) : SolrNames[i] = n

\* {name(v): i for i, v in enumerate(columns)}: the last column of a name wins
IndexDict(names) ==
    [k \in Range(names) |-> SetMax({i \in 1..Len(names) : names[i] = k}) - 1]

ShiftIdx(v) == IF v = None THEN None ELSE v + 1

\* FieldModel.__init__
NewFieldModel(columns) ==
    LET cols == IF columns[1].colname # "collection"
                THEN <<CollectionColumn>> \o
                     [i \in 1..Len(columns) |->
                        [columns[i] EXCEPT !.colidx = ShiftIdx(@),
                                           !.displaycolidx = ShiftIdx(@)]]
                ELSE columns
    IN  [columns |-> cols,
         col_dict |-> IndexDict([i \in 1..Len(cols) |-> cols[i].colname]),
         solr_dict |-> IndexDict([i \in 1..Len(cols) |-> cols[i].solrname]),
         bound |-> FALSE,
         changed_solrnames |-> [k \in {} |-> ""],
         type_casts |-> [k \in {} |-> ""]]

HasColumn(fm, colname) == colname \in DOMAIN fm.col_dict

\* FieldModel.get(colname), for a column that exists
GetColumn(fm, colname) == fm.columns[fm.col_dict[colname] + 1]

\* FieldModel._resolve_solrname_from_colname_or_solrname; "" stands for the
\* KeyError
ResolveSolrname(fm, field) ==
    IF field \in DOMAIN fm.solr_dict THEN fm.columns[fm.solr_dict[field] + 1].solrname
    ELSE IF field \in DOMAIN fm.col_dict THEN fm.columns[fm.col_dict[field] + 1].solrname
    ELSE ""

\* FieldModel.premerge_repr
premerge_repr(fm) ==
    [i \in 1..Len(fm.columns) |-> [k |-> fm.columns[i].colname,
                                    v |-> fm.columns[i].displaycolidx]]

MaxWithNone(a, b) == IF a = None THEN b ELSE IF b = None THEN a ELSE Max2(a, b)

\* whether Column.merged_column raises TypeError for the pair
MergeMismatch(c, o) ==
    \/ c.colname # o.colname
    \/ c.title # o.title
    \/ c.type # o.type
    \/ (c.advancedsearch # "true" /\ o.advancedsearch # "true"
        /\ c.advancedsearch # o.advancedsearch)

\* Column.merged_column, for a pair that does not raise
merged_column(c, o) ==
    [colname |-> c.colname,
     solrname |-> IF SolrRank(c.solrname) >= SolrRank(o.solrname) THEN c.solrname ELSE o.solrname,
     solrtype |-> IF SolrTypeIndex(c.solrtype) <= SolrTypeIndex(o.solrtype)
                  THEN c.solrtype ELSE o.solrtype,
     title |-> c.title,
     type |-> c.type,
     width |-> MaxWithNone(c.width, o.width),
     colidx |-> MaxWithNone(c.colidx, o.colidx),
     advancedsearch |-> IF c.advancedsearch = "true" \/ o.advancedsearch = "true"
                        THEN "true" ELSE c.advancedsearch,
     displaycolidx |-> MaxWithNone(c.displaycolidx, o.displaycolidx)]

\* the column merged_model appends for the entry {k: colidx} of the merged
\* repr: the merge of the two columns, or the one column there is, with its
\* displaycolidx replaced
MergedEntryColumn(self, other, k, colidx) ==
    LET base == IF HasColumn(self, k) /\ HasColumn(other, k)
                THEN merged_column(GetColumn(self, k), GetColumn(other, k))
                ELSE IF HasColumn(self, k) THEN GetColumn(self, k)
                ELSE GetColumn(other, k)
    IN  [base EXCEPT !.displaycolidx = colidx]

\* replace_displaycolidx acts on the Column object itself when the column
\* is in one model only: the model fm as the call leaves it
TouchedByMerge(fm, otherfm, ret) ==
    [fm EXCEPT !.columns =
        [i \in 1..Len(fm.columns) |->
            LET k == fm.columns[i].colname
                hits == {j \in 1..Len(ret) : ret[j].k = k}
            IN  IF fm.col_dict[k] = i - 1 /\ ~HasColumn(otherfm, k) /\ hits # {}
                THEN [fm.columns[i] EXCEPT !.displaycolidx = ret[SetMax(hits)].v]
                ELSE fm.columns[i]]]

\* what merged_model makes of the merged repr mr; a TypeError of
\* merged_column at entry j comes after the entries before j were handled
MergedFrom(self, other, mr) ==
    LET ret == mr.ret
        badAt == {j \in 1..Len(ret) :
                     /\ HasColumn(self, ret[j].k) /\ HasColumn(other, ret[j].k)
                     /\ MergeMismatch(GetColumn(self, ret[j].k), GetColumn(other, ret[j].k))}
        firstBad == CHOOSE j \in badAt : \A i \in badAt : j <= i
    IN  IF mr.pc = "error"
        THEN [err |-> TRUE, model |-> self, self |-> self, other |-> other]
        ELSE IF badAt # {}
        THEN [err |-> TRUE, model |-> self,
              self |-> TouchedByMerge(self, other, Take(ret, firstBad - 1)),
              other |-> TouchedByMerge(other, self, Take(ret, firstBad - 1))]
        ELSE [err |-> FALSE,
              model |-> NewFieldModel([j \in 1..Len(ret) |->
                                         MergedEntryColumn(self, other, ret[j].k, ret[j].v)]),
              self |-> TouchedByMerge(self, other, ret),
              other |-> TouchedByMerge(other, self, ret)]

\* FieldModel.merged_model: .err for an exception (of merge or of
\* merged_column), .model the new FieldModel, .self and .other the two
\* inputs as the call leaves them
merged_model(self, other) ==
    The({MergedFrom(self, other, mr) :
            mr \in {merge(premerge_repr(self), premerge_repr(other))}})

\* FieldModel.set_follow_model(follow): .err for the KeyError of
\* follow.get on a colname that follow lacks
set_follow_model(fm, follow) ==
    LET n == Len(fm.columns)
        missing == \E i \in 1..n : ~HasColumn(follow, fm.columns[i].colname)
        old_dict == fm.solr_dict
        new_dict == IndexDict([i \in 1..n |-> GetColumn(follow, fm.columns[i].colname).solrname])
        changed == DOMAIN new_dict \ DOMAIN old_dict
        own(sn) == fm.columns[new_dict[sn] + 1].solrname
    IN  IF missing THEN [err |-> TRUE, fm |-> fm]
        ELSE [err |-> FALSE,
              fm |-> [fm EXCEPT
                        !.solr_dict = new_dict,
                        !.bound = TRUE,
                        !.changed_solrnames =
                            [o \in {own(sn) : sn \in changed} |->
                                CHOOSE sn \in changed : own(sn) = o],
                        !.type_casts =
                            [o \in {fm.columns[i].solrname : i \in 1..n} |->
                                GetColumn(follow,
                                    fm.columns[SetMax({i \in 1..n : fm.columns[i].solrname = o})].colname
                                ).solrtype]]]

(***************************************************************************)
(* api.py: SpecifyApi, the client of one backend, as far as the model      *)
(* synchronisation goes.  A client is a record [collection, column_model,  *)
(* model_json, follow_model, stale]; follow_model is the identity of a     *)
(* combined FieldModel object, NoObject for None.  The field model a       *)
(* backend serves is a record [full, cols]: the columns Column      *)
(* makes of its dicts, and whether the dicts spell every field of a        *)
(* column (only then can the JSON equal a serialized model).               *)
(***************************************************************************)
\* the collections there are, in name order
Collections == <<"a", "b">>

NoObject == 0 - 1

NoFieldModel == [columns |-> << >>]

\* SpecifyApi.__init__
NewClient(collection) ==
    [collection |-> collection, column_model |-> NoFieldModel, model_json |-> << >>,
     has_json |-> FALSE, follow_model |-> NoObject, stale |-> TRUE]

\* FieldModel.serialized
serialized(fm) == fm.columns

\* `model != self.model_json` in SpecifyApi._model
JsonDiffers(raw, client) ==
    ~(client.has_json /\ raw.full /\ raw.cols = client.model_json)

\* SpecifyApi._model, when the backend answers raw
FetchModel(client, raw) ==
    IF JsonDiffers(raw, client)
    THEN [client EXCEPT !.stale = TRUE, !.column_model = NewFieldModel(raw.cols)]
    ELSE client

\* SpecifyApi.start, when the backend answers raw: model_json becomes what
\* _model returns, the serialized column model
StartClient(client, raw) ==
    The({[c EXCEPT !.model_json = serialized(c.column_model), !.has_json = TRUE] :
            c \in {FetchModel(client, raw)}})

\* SpecifyApi.set_follow_model
BindClient(client, id, combined) ==
    [client EXCEPT !.follow_model = id,
                   !.column_model = set_follow_model(client.column_model, combined).fm,
                   !.stale = FALSE]

(***************************************************************************)
(* controller.py: CombinedApi._sync_models, over one or two clients.       *)
(***************************************************************************)
\* the loop `combined_model = combined_model.merged_model(other)` for one
\* or two clients (the model has two collections): [err, combined, cms],
\* cms the column models of the clients as the merge leaves them
SyncFold(cms) ==
    IF Len(cms) = 1 THEN [err |-> FALSE, combined |-> cms[1], cms |-> cms]
    ELSE The({[err |-> r.err, combined |-> r.model, cms |-> <<r.self, r.other>>] :
                r \in {merged_model(cms[1], cms[2])}})

\* a variant of the rebinding that leaves the clients that are not stale
\* as they are
SyncBindStaleOnly(cls, id, folded) ==
    LET merged == [j \in 1..Len(cls) |-> [cls[j] EXCEPT !.column_model = folded.cms[j]]]
        bound == [j \in 1..Len(cls) |->
                    IF cls[j].stale THEN BindClient(merged[j], id, folded.combined)
                    ELSE merged[j]]
    IN  IF folded.err
        THEN [err |-> TRUE, clients |-> merged, model |-> folded.combined]
        ELSE [err |-> FALSE, clients |-> bound,
              model |-> IF Len(cls) = 1 THEN bound[1].column_model ELSE folded.combined]

\* `for api in self.apis: api.set_follow_model(combined_model)` and
\* `self._model = combined_model`, after the merges gave folded
SyncBind(cls, id, folded) ==
    LET merged == [j \in 1..Len(cls) |-> [cls[j] EXCEPT !.column_model = folded.cms[j]]]
        lacks == {j \in 1..Len(cls) : set_follow_model(folded.cms[j], folded.combined).err}
        bound == [j \in 1..Len(cls) |->
                    IF \E k \in lacks : k <= j THEN merged[j]
                    ELSE BindClient(merged[j], id, folded.combined)]
    IN  IF folded.err
        THEN [err |-> TRUE, clients |-> merged, model |-> folded.combined]
        ELSE IF lacks # {}
        THEN [err |-> TRUE, clients |-> bound, model |-> folded.combined]
        ELSE [err |-> FALSE, clients |-> bound,
              model |-> IF Len(cls) = 1 THEN bound[1].column_model ELSE folded.combined]

\* _sync_models over the clients cls (a non-empty sequence), the new
\* combined model taking the identity id: .err for an exception (of
\* merged_model, or of set_follow_model on a client, which leaves the
\* clients before it bound), .clients the clients and .model the combined
\* model afterwards.  With one client the combined model is that client's
\* column model itself.
sync_models(cls, id) ==
    The({SyncBind(cls, id, folded) :
            folded \in {SyncFold([j \in 1..Len(cls) |-> cls[j].column_model])}})

(***************************************************************************)
(* api.py: SpecifyApi.query and _query, for one query (queryTerms is fixed *)
(* and matches every document of the backend).                             *)
(*                                                                         *)
(* A backend holds a list of documents in its index order, xs: the value   *)
(* each has in its column x; a document's spid is its place in xs and      *)
(* every other column holds 0.  A document of a response is a record       *)
(* [spid, coll, vals], vals the map from field name to value.  A response  *)
(* is [docs, last_page, total]; facet counts, the type casts and the       *)
(* per-spid entries of the client's cache (rinse_cache_items) are left     *)
(* out: with unchanged backends they never change a document's value, and  *)
(* str, int and float keep the order of the values 1..MaxValue.  The field *)
(* spid is taken to have a type cast in every client.                      *)
(* A client's cache holds one entry, that of the query: [present, pages,   *)
(* last_page, total], pages a map from page number to docs.                *)
(***************************************************************************)
CeilDiv(n, d) == (n + d - 1) \div d

\* n // rows - 1, the last page when the division rounds down
LastPageFloor(n, rows) == (n \div rows) - 1

\* -(-n // rows) - 1
LastPageOf(n, rows) == CeilDiv(n, rows) - 1

\* what column `solrname` (the backend's own name) holds in document i
OwnValue(fm, xs, i, solrname) ==
    IF HasColumn(fm, "x") /\ GetColumn(fm, "x").solrname = solrname THEN xs[i] ELSE 0

\* the places 1..Len(xs) in the order Solr returns them: sorted on the
\* value of key (ties in index order), or in index order without a sort
RECURSIVE InsertByKey(_, _, _, _)
InsertByKey(sorted, i, key, asc) ==
    IF sorted = << >> THEN <<i>>
    ELSE IF (asc /\ key[i] < key[Head(sorted)]) \/ (~asc /\ key[i] > key[Head(sorted)])
         THEN <<i>> \o sorted
         ELSE <<Head(sorted)>> \o InsertByKey(Tail(sorted), i, key, asc)

RECURSIVE SolrOrder(_, _, _)
SolrOrder(n, key, asc) ==
    IF n = 0 THEN << >>
    ELSE The({InsertByKey(prev, n, key, asc) : prev \in {SolrOrder(n - 1, key, asc)}})

\* the renames of changed_solrnames applied to a document's fields, one
\* after the other
RECURSIVE Renamed(_, _)
Renamed(vals, changed) ==
    IF DOMAIN changed = {} THEN vals
    ELSE LET find == CHOOSE f \in DOMAIN changed : TRUE
             replace == changed[find]
             rest == [f \in DOMAIN changed \ {find} |-> changed[f]]
         IN  IF find \in DOMAIN vals
             THEN Renamed([f \in (DOMAIN vals \ {find}) \cup {replace} |->
                              IF f = replace THEN vals[find] ELSE vals[f]], rest)
             ELSE Renamed(vals, rest)

\* SpecifyApi._query: the request and the post-processing of its response.
\* The sort field is resolved through the client's column model; a field
\* that does not resolve is dropped (ignore_missing).
backend_query(client, xs, rows, sort, asc, page) ==
    LET fm == client.column_model
        field == IF sort = "" THEN "" ELSE ResolveSolrname(fm, sort)
        sortParam == IF field = COLLECTION_SOLRNAME THEN "" ELSE field
        n == Len(xs)
        order == IF sortParam = "" THEN [i \in 1..n |-> i]
                 ELSE SolrOrder(n, [i \in 1..n |-> OwnValue(fm, xs, i, sortParam)], asc)
        from == page * rows
        count == IF n - from > rows THEN rows ELSE IF n - from < 0 THEN 0 ELSE n - from
        own == {fm.columns[j].solrname : j \in 2..Len(fm.columns)}
    IN  [docs |-> [k \in 1..count |->
                     [spid |-> order[from + k],
                      coll |-> client.collection,
                      vals |-> Renamed([f \in own |-> OwnValue(fm, xs, order[from + k], f)],
                                       fm.changed_solrnames)]],
         last_page |-> LastPageOf(n, rows),
         total |-> n,
         sorted_on |-> sortParam]

NoEntry == [present |-> FALSE]

\* an entry none of whose pages is found
PageNeverStored(entry, page) == FALSE

\* `docs = cache_dict['pages'][page]` finds the page
PageStored(entry, page) == page \in DOMAIN entry.pages

\* SpecifyApi.query with cache=True: .resp the response, .cache the
\* client's cache entry afterwards, .fetched whether a request was sent
api_query(client, entry, xs, rows, sort, asc, page) ==
    LET resolved == IF sort = "" THEN "" ELSE ResolveSolrname(client.column_model, sort)
    IN  IF entry.present /\ page > entry.last_page
        THEN [resp |-> [docs |-> << >>, last_page |-> entry.last_page, total |-> entry.total],
              cache |-> entry, fetched |-> FALSE]
        ELSE IF entry.present /\ PageStored(entry, page)
        THEN [resp |-> [docs |-> entry.pages[page], last_page |-> entry.last_page,
                        total |-> entry.total],
              cache |-> entry, fetched |-> FALSE]
        ELSE The({
            IF entry.present
            THEN [resp |-> [docs |-> raw.docs, last_page |-> entry.last_page,
                            total |-> entry.total],
                  cache |-> [entry EXCEPT !.pages =
                                [q \in DOMAIN entry.pages \cup {page} |->
                                    IF q = page THEN raw.docs ELSE entry.pages[q]]],
                  fetched |-> TRUE]
            ELSE [resp |-> [docs |-> raw.docs, last_page |-> raw.last_page,
                            total |-> raw.total],
                  cache |-> [present |-> TRUE, pages |-> [q \in {page} |-> raw.docs],
                             last_page |-> raw.last_page, total |-> raw.total],
                  fetched |-> TRUE] :
            raw \in {backend_query(client, xs, rows, resolved, asc, page)}})

(***************************************************************************)
(* controller.py: the drippers.  results is the map from collection to     *)
(* response, names the keys of results in insertion order, cursors the map *)
(* from collection to [page, off].  A dripper gives [out, cursors, crash]: *)
(* the documents it yields until it returns, the cursors it leaves, and    *)
(* whether it raised.                                                      *)
(***************************************************************************)
\* the number of rows of a page, of the pager and of every backend; the
\* program has 50
DEFAULT_QUERY_ROWS == 2

\* sorted(names), for names out of Collections
SortedNames(S) == SelectSeq(Collections, LAMBDA c : c \in S)

Reversed(s) == [i \in 1..Len(s) |-> s[Len(s) + 1 - i]]

\* buffers: the collections of results with docs, in the order of results
Buffers(results, names) == SelectSeq(names, LAMBDA c : results[c].docs # << >>)

\* a test of exhaustion that answers one document early
AtBufferEndEarly(results, cursors, c) == cursors[c].off + 1 >= Len(results[c].docs)

\* `cursors[c][1]` is no index of the buffer of c: the IndexError of the
\* drippers, and the test of at_end
AtBufferEnd(results, cursors, c) == cursors[c].off >= Len(results[c].docs)

Advance(cursors, c) == [cursors EXCEPT ![c].off = @ + 1]

SumSeq(w) == IF w = << >> THEN 0 ELSE LET S[i \in 0..Len(w)] == IF i = 0 THEN 0 ELSE S[i - 1] + w[i] IN S[Len(w)]

\* random.choices(items, weights)[0] when random() gives draw / 2: the
\* first place whose cumulative weight exceeds random() * total
WeightedChoice(weights, draw) ==
    LET total == SumSeq(weights)
        x == (draw * total) \div 2
        cum(i) == SumSeq(Take(weights, i))
    IN  CHOOSE i \in 1..Len(weights) : cum(i) > x /\ \A j \in 1..(i - 1) : cum(j) <= x

\* the k-th random() of the generator seeded with seed, in halves: a
\* fixed function of seed and k, given by the sequence stream
RandomDraw(stream, seed, k) == stream[((seed + k) % Len(stream)) + 1]

RECURSIVE RandLoop(_, _, _, _, _, _, _)
RandLoop(results, order, weights, stream, seed, k, acc) ==
    IF \E j \in 1..Len(order) : AtBufferEnd(results, acc.cursors, order[j])
    THEN acc
    ELSE The({RandLoop(results, order, weights, stream, seed, k + 1,
                       [out |-> Append(acc.out, results[c].docs[acc.cursors[c].off + 1]),
                        cursors |-> Advance(acc.cursors, c), crash |-> FALSE]) :
                c \in {order[WeightedChoice(weights, RandomDraw(stream, seed, k))]}})

\* CombinedApi._rand_drip; buffers[order[0]] raises when no collection has
\* docs
rand_drip(results, names, cursors, asc, stream) ==
    LET order == SortedNames(Range(Buffers(results, names)))
    IN  IF order = << >> THEN [out |-> << >>, cursors |-> cursors, crash |-> TRUE]
        ELSE RandLoop(results, order, [j \in 1..Len(order) |-> results[order[j]].total],
                      stream, results[order[1]].docs[1].spid, 0,
                      [out |-> << >>, cursors |-> cursors, crash |-> FALSE])

\* a dripper that goes on to the next collection after the first
RECURSIVE DrainFrom(_, _, _, _)
DrainFrom(results, order, j, acc) ==
    IF j > Len(order) THEN acc
    ELSE DrainFrom(results, order, j + 1,
                   [out |-> acc.out \o Drop(results[order[j]].docs, acc.cursors[order[j]].off),
                    cursors |-> [acc.cursors EXCEPT ![order[j]].off =
                                    Max2(@, Len(results[order[j]].docs))],
                    crash |-> FALSE])

collection_drip_on(results, names, cursors, asc) ==
    DrainFrom(results,
              IF asc THEN SortedNames(Range(Buffers(results, names)))
              ELSE Reversed(SortedNames(Range(Buffers(results, names)))),
              1, [out |-> << >>, cursors |-> cursors, crash |-> FALSE])

\* CombinedApi._collection_drip: the rest of the buffer of the first
\* collection in name order, and nothing else
collection_drip(results, names, cursors, asc) ==
    LET sorted == SortedNames(Range(Buffers(results, names)))
        order == IF asc THEN sorted ELSE Reversed(sorted)
    IN  IF order = << >> \/ AtBufferEnd(results, cursors, order[1])
        THEN [out |-> << >>, cursors |-> cursors, crash |-> FALSE]
        ELSE [out |-> Drop(results[order[1]].docs, cursors[order[1]].off),
              cursors |-> [cursors EXCEPT ![order[1]].off = Len(results[order[1]].docs)],
              crash |-> FALSE]

\* min / max of the current documents on field: the first of the best
FieldChoice(results, order, cursors, field, asc) ==
    LET v(j) == results[order[j]].docs[cursors[order[j]].off + 1].vals[field]
    IN  CHOOSE j \in 1..Len(order) :
            /\ \A i \in 1..Len(order) : IF asc THEN v(j) <= v(i) ELSE v(j) >= v(i)
            /\ \A i \in 1..(j - 1) : v(i) # v(j)

RECURSIVE FieldLoop(_, _, _, _, _)
FieldLoop(results, order, field, asc, acc) ==
    IF \E j \in 1..Len(order) : AtBufferEnd(results, acc.cursors, order[j])
    THEN acc
    ELSE IF \/ order = << >>
            \/ \E j \in 1..Len(order) :
                  field \notin DOMAIN results[order[j]].docs[acc.cursors[order[j]].off + 1].vals
    THEN [acc EXCEPT !.crash = TRUE]
    ELSE The({FieldLoop(results, order, field, asc,
                        [out |-> Append(acc.out, results[c].docs[acc.cursors[c].off + 1]),
                         cursors |-> Advance(acc.cursors, c), crash |-> FALSE]) :
                c \in {order[FieldChoice(results, order, acc.cursors, field, asc)]}})

\* the dripper _field_drip_maker(field) makes; min / max of no documents
\* and a document without the field raise
field_drip(results, names, cursors, asc, field) ==
    FieldLoop(results, Buffers(results, names), field, asc,
              [out |-> << >>, cursors |-> cursors, crash |-> FALSE])

\* _drip_generator(solrname) applied to (results, cursors, asc)
drip(results, names, cursors, asc, solrname, stream) ==
    IF solrname = "" THEN rand_drip(results, names, cursors, asc, stream)
    ELSE IF solrname = COLLECTION_SOLRNAME THEN collection_drip(results, names, cursors, asc)
    ELSE field_drip(results, names, cursors, asc, solrname)

(***************************************************************************)
(* api.py: SpecifyApi._query_builder.  A term here is a record [t, s,      *)
(* items] as above, with s the text of a leaf as a string.  The outcome is *)
(* [err, q]: err names the exception raised ("" for none, "422" for        *)
(* ApiValidationError), q is the query string returned.                    *)
(***************************************************************************)
QInt(n) == [t |-> "int", s |-> ToString(n), items |-> << >>]
QStr(s) == [t |-> "str", s |-> s, items |-> << >>]
QList(items) == [t |-> "list", s |-> "", items |-> items]

IsLeaf(x) == x.t # "list"

\* sep.join(parts), the parts taken from the last to the first
RECURSIVE JoinBackwards(_, _)
JoinBackwards(parts, sep) ==
    IF parts = << >> THEN ""
    ELSE IF Len(parts) = 1 THEN parts[1]
    ELSE JoinBackwards(Tail(parts), sep) \o sep \o parts[1]

\* sep.join(parts)
RECURSIVE JoinStr(_, _)
JoinStr(parts, sep) ==
    IF parts = << >> THEN ""
    ELSE IF Len(parts) = 1 THEN parts[1]
    ELSE parts[1] \o sep \o JoinStr(Tail(parts), sep)

\* repr(x) as a string
RECURSIVE ReprText(_)
ReprText(x) ==
    IF x.t = "int" THEN x.s
    ELSE IF x.t = "str" THEN "'" \o x.s \o "'"
    ELSE "[" \o JoinStr([i \in 1..Len(x.items) |-> ReprText(x.items[i])], ", ") \o "]"

\* what an f-string makes of x
Formatted(x) == IF IsLeaf(x) THEN x.s ELSE ReprText(x)

\* SearchSyntax: OR = 1, AND = 2
Combs(x) ==
    IF x.t = "int" /\ x.s = "1" THEN " OR "
    ELSE IF x.t = "int" /\ x.s = "2" THEN " AND "
    ELSE ""

Built(q) == [err |-> "", q |-> q]
Raised(e) == [err |-> e, q |-> ""]

\* column_model._resolve_solrname_from_colname_or_solrname(terms[0]); a
\* name that is not a string is in neither dict
ResolveField(fm, x) == IF x.t = "str" THEN ResolveSolrname(fm, x.s) ELSE ""

\* `q = self._query_builder`: the calls on the subterms pass no
\* ignore_missing, which is then False
RECURSIVE query_builder(_, _, _)
query_builder(fm, terms, ignore_missing) ==
    IF IsLeaf(terms) THEN Built("(" \o terms.s \o ")")
    ELSE IF Len(terms.items) = 1 THEN Built("(" \o Formatted(terms.items[1]) \o ")")
    ELSE IF Len(terms.items) = 0 THEN Raised("IndexError")
    ELSE IF ~IsLeaf(terms.items[1]) THEN Raised("TypeError")
    ELSE IF Combs(terms.items[1]) # ""
    THEN LET parts == [i \in 1..(Len(terms.items) - 1) |->
                          query_builder(fm, terms.items[i + 1], FALSE)]
             bad == {i \in 1..Len(parts) : parts[i].err # ""}
         IN  IF bad # {} THEN parts[CHOOSE i \in bad : \A j \in bad : i <= j]
             ELSE Built("(" \o JoinStr([i \in 1..Len(parts) |-> parts[i].q],
                                       Combs(terms.items[1])) \o ")")
    ELSE LET field == ResolveField(fm, terms.items[1])
             ret == IF field = "" THEN terms.items[1].s \o ":" ELSE field \o ":"
         IN  IF field = "" /\ ~ignore_missing THEN Raised("KeyError")
             ELSE IF field = COLLECTION_SOLRNAME THEN Built("*")
             ELSE IF Len(terms.items) = 2
             THEN LET sub == query_builder(fm, terms.items[2], FALSE)
                  IN  IF sub.err # "" THEN sub ELSE Built(ret \o sub.q)
             ELSE IF Len(terms.items) > 3 THEN Raised("422")
             ELSE Built(ret \o "[" \o Formatted(terms.items[2]) \o " TO "
                            \o Formatted(terms.items[3]) \o "]")

(***************************************************************************)
(* QueryCache: a TTLCache of unbounded size whose get() stores a found     *)
(* value again.  A TTLCache item set at time t is there as long as the     *)
(* timer reads less than t + ttl.  Time is counted in whole ticks.         *)
(***************************************************************************)
TTL == 2

MaxTime == 6

CacheKeys == {"k1", "k2"}

\* the values the program stores: combined entries and documents, both
\* non-empty dicts
CachedValues == {"entry", "doc"}

\* TTLCache.__getitem__ / __contains__: the item, unless the timer reached its expiry
TTLCache_get(c, key, t) ==
    IF c[key].value # "None" /\ t < c[key].expires THEN c[key].value ELSE "None"

\* TTLCache.__setitem__
TTLCache_set(c, key, value, t) ==
    [c EXCEPT ![key] = [value |-> value, expires |-> t + TTL]]

\* `if res:`
Truthy(res) == res # "None"

\* a get() that only looks the key up
QueryCache_get_once(c, key, t) ==
    [cache |-> c, res |-> TTLCache_get(c, key, t)]

\* QueryCache.get(key)
QueryCache_get(c, key, t) ==
    LET res == TTLCache_get(c, key, t)
    IN  [cache |-> IF Truthy(res) THEN TTLCache_set(c, key, res, t) ELSE c,
         res |-> res]

\* QueryCache.set(key, value)
QueryCache_set(c, key, value, t) == TTLCache_set(c, key, value, t)

(***************************************************************************)
(* State.                                                                  *)
(***************************************************************************)
VARIABLES
    inA, inB,   \* the two lists handed to merge(a, b)
    m,          \* merge's loop state
    q1, q2,     \* two query terms
    hargs,      \* the other arguments of the cache key functions
    hres,       \* the hashes and cache keys computed for q1 and q2
    fmA, fmB,   \* the FieldModels of two backends
    sm,         \* the outcome of fmA.merged_model(fmA)
    pm,         \* the outcome of fmA.merged_model(fmB)
    disc,       \* the collections the discovery page lists
    json,       \* per collection, the version of the field model it serves
    envLeft,    \* how many more changes the backends make
    clients,    \* every SpecifyApi object made so far, by identity
    co,         \* the CombinedApi object
    tasks,      \* the start() and model() calls made so far
    callsLeft,  \* how many more re-discoveries and model() calls are made
    qargs,      \* the arguments of the global query: collections, sort, asc
    backend,    \* per collection, the documents the backend holds
    rng,        \* the random generator: its sequence of draws
    ccache,     \* the combined cache's entry for the query
    bcache,     \* per collection, the client's cache entry for the query
    ttlLeft,    \* how many more cache entries expire
    served,     \* per page, the documents the last request for it returned
    last,       \* the last request: its status, whether it repeated an
                \* earlier one ("hit": from the entry, "run": after the drip
                \* loop) and whether it then returned the same documents
    clock,      \* the timer of a QueryCache
    store,      \* the QueryCache's TTLCache: per key, value and expiry
    lastUse,    \* per key, when it was last set or found by get()
    lastSet,    \* per key, when it was last set
    got,        \* the last get(): its key, its result and its time
    qb,         \* a _query_builder call: its arguments and its outcome
    race        \* the requests in flight, suspended at a fetch, and the
                \* counts of the requests begun and of the entries set

mergeVars == <<inA, inB, m>>
hashVars == <<q1, q2, hargs, hres>>
modelVars == <<fmA, fmB, sm, pm>>
syncVars == <<disc, json, envLeft, clients, co, tasks, callsLeft>>
pagerVars == <<qargs, backend, rng, ccache, bcache, ttlLeft, served, last>>
cacheVars == <<clock, store, lastUse, lastSet, got>>
builderVars == <<qb>>
raceVars == <<race>>

vars == <<mergeVars, hashVars, modelVars, syncVars, pagerVars, cacheVars, builderVars, raceVars>>

\* what the steps of each part leave alone
notMerge == <<hashVars, modelVars, syncVars, pagerVars, cacheVars, builderVars, raceVars>>
notHash == <<mergeVars, modelVars, syncVars, pagerVars, cacheVars, builderVars, raceVars>>
notModel == <<mergeVars, hashVars, syncVars, pagerVars, cacheVars, builderVars, raceVars>>
notSync == <<mergeVars, hashVars, modelVars, pagerVars, cacheVars, builderVars, raceVars>>
notPager == <<mergeVars, hashVars, modelVars, syncVars, cacheVars, builderVars, raceVars>>
notCache == <<mergeVars, hashVars, modelVars, syncVars, pagerVars, builderVars, raceVars>>
notBuilder == <<mergeVars, hashVars, modelVars, syncVars, pagerVars, cacheVars, raceVars>>
notRace == <<mergeVars, hashVars, modelVars, syncVars, pagerVars, cacheVars, builderVars>>

MergeIdle == inA = << >> /\ inB = << >> /\ m = [pc |-> "idle"]
HashIdle == q1 = << >> /\ q2 = << >> /\ hargs = << >> /\ hres = [pc |-> "idle"]
ModelIdle == fmA = << >> /\ fmB = << >> /\ sm = [pc |-> "idle"] /\ pm = [pc |-> "idle"]
SyncIdle ==
    /\ disc = {} /\ json = << >> /\ envLeft = 0 /\ clients = << >>
    /\ co = [pc |-> "idle"] /\ tasks = << >> /\ callsLeft = [boot |-> 0, starts |-> 0, pokes |-> 0]
PagerIdle ==
    /\ qargs = << >> /\ backend = << >> /\ rng = << >> /\ ccache = [present |-> FALSE]
    /\ bcache = << >> /\ ttlLeft = 0 /\ served = << >> /\ last = [status |-> "idle"]
CacheIdle ==
    /\ clock = 0 /\ store = << >> /\ lastUse = << >> /\ lastSet = << >> /\ got = [key |-> ""]
BuilderIdle == qb = [pc |-> "idle"]
RaceIdle == race = [flight |-> << >>]

(***************************************************************************)
(* The merger run on its own: merge(a, b) one loop pass at a time.  The    *)
(* inputs are premerge_repr() lists of FieldModels: the `collection` entry *)
(* with display index 0 first, then columns with unique names whose        *)
(* display index is None or a number from 1 (FieldModel.__init__ shifts    *)
(* the backend's indices by one).                                          *)
(***************************************************************************)
ColKeys == {"x", "y", "z"}

DisplayIdx == {None} \cup 1..MaxIdx

PremergeReprs ==
    {<<[k |-> "collection", v |-> 0]>> \o [i \in 1..Len(ks) |-> [k |-> ks[i], v |-> vs[i]]] :
        <<ks, vs>> \in {p \in InjSeqs(ColKeys, Cardinality(ColKeys))
                               \X UNION {[1..n -> DisplayIdx] : n \in 0..Cardinality(ColKeys)} :
                          Len(p[1]) = Len(p[2])}}

MergeInit ==
    /\ inA \in PremergeReprs
    /\ inB \in PremergeReprs
    /\ m = MergeStart(inA, inB)

MergeEndStep ==
    /\ m.pc = "loop"
    /\ MergeAtEnd(m)
    /\ m' = MergeIter(m)
    /\ UNCHANGED <<inA, inB, notMerge>>

MergeMatchStep ==
    /\ m.pc = "loop"
    /\ ~MergeAtEnd(m)
    /\ ~m.conflict
    /\ EntryAt(m.a, m.ai).k = EntryAt(m.b, m.bi).k
    /\ m' = MergeIter(m)
    /\ UNCHANGED <<inA, inB, notMerge>>

MergeOpenStep ==
    /\ m.pc = "loop"
    /\ ~MergeAtEnd(m)
    /\ ~m.conflict
    /\ EntryAt(m.a, m.ai).k # EntryAt(m.b, m.bi).k
    /\ m' = MergeIter(m)
    /\ UNCHANGED <<inA, inB, notMerge>>

MergeWindowStep ==
    /\ m.pc = "loop"
    /\ m.conflict
    /\ m' = MergeIter(m)
    /\ UNCHANGED <<inA, inB, notMerge>>

InitMerge == MergeInit /\ HashIdle /\ ModelIdle /\ SyncIdle /\ PagerIdle /\ CacheIdle /\ BuilderIdle /\ RaceIdle

NextMerge ==
    \/ MergeEndStep
    \/ MergeMatchStep
    \/ MergeOpenStep
    \/ MergeWindowStep

SpecMerge == InitMerge /\ [][NextMerge]_vars

(***************************************************************************)
(* Properties of merge.                                                    *)
(***************************************************************************)
KeysOf(l) == {l[i].k : i \in 1..Len(l)}

Occurrences(l, k) == {i \in 1..Len(l) : l[i].k = k}

\* k1 comes before k2 in a list with unique keys
Precedes(l, k1, k2) ==
    \E i, j \in 1..Len(l) : i < j /\ l[i].k = k1 /\ l[j].k = k2

\* C6: every key that occurs in A or in B occurs exactly once in
\* merge(A, B), and no other key occurs.
C6_EveryKeyExactlyOnce ==
    m.pc = "done" =>
        /\ KeysOf(m.ret) = KeysOf(inA) \cup KeysOf(inB)
        /\ \A k \in KeysOf(m.ret) : Cardinality(Occurrences(m.ret, k)) = 1

Placements(n) == {f \in [1..n -> 1..n] : \A i, j \in 1..n : i # j => f[i] # f[j]}

SortPlaced(a, sa) ==
    /\ Len(sa) = Len(a)
    /\ \E f \in Placements(Len(a)) :
          /\ \A i \in 1..Len(a) : sa[f[i]] = a[i]
          /\ \A i \in 1..Len(a) : a[i].v = None => f[i] = i
          /\ \A i, j \in 1..Len(a) :
                (i < j /\ a[i].v # None /\ a[j].v # None) =>
                    IF a[i].v <= a[j].v THEN f[i] < f[j] ELSE f[j] < f[i]

\* C15: sort_place returns a permutation of its input in which the numbered
\* entries (0 included) come in ascending order of value, equal values in
\* input order, and every None-valued entry is at the list index it had in
\* the input.
C15_SortPlacePermutation ==
    m.pc # "idle" =>
        /\ m.a = sort_place(inA) /\ SortPlaced(inA, m.a)
        /\ m.b = sort_place(inB) /\ SortPlaced(inB, m.b)

\* sort_place moved entries of both lists: A holds a None-valued entry
\* before a larger number before a smaller one, B two numbered entries of
\* equal value after a larger one
C15_Witness ==
    /\ m.pc # "idle"
    /\ m.pc = "done" /\ m.a # inA /\ m.b # inB
    /\ \E i, j, l \in 1..Len(inA) :
          i < j /\ j < l /\ inA[i].v = None /\ inA[j].v # None /\ inA[l].v # None /\ inA[j].v > inA[l].v
    /\ \E i, j, l \in 1..Len(inB) :
          i < j /\ j < l /\ inB[i].v # None /\ inB[j].v # None /\ inB[i].v > inB[j].v /\ inB[j].v = inB[l].v

\* C16: the numeric display indices of merge(A, B) are strictly increasing
\* along the output (a None-valued entry is emitted as None and leaves the
\* running counter as it is), so no two numbered entries share an index.
C16_IndicesStrictlyIncreasing ==
    m.pc = "done" =>
        \A i, j \in 1..Len(m.ret) :
            (i < j /\ m.ret[i].v # None /\ m.ret[j].v # None) => m.ret[i].v < m.ret[j].v

(***************************************************************************)
(* The cache key functions run on two query terms that are equal up to the *)
(* order of the terms inside combinators.                                  *)
(***************************************************************************)
\* the leaves "a" and "b", the combinator tags OR = 1 and AND = 2
Leaves == {StrLeaf(<<97>>), StrLeaf(<<98>>)}
Tags == {IntLeaf(<<49>>), IntLeaf(<<50>>)}

\* [OR|AND, leaf, leaf]
InnerTerms == {ListTerm(<<tag, x, y>>) : tag \in Tags, x \in Leaves, y \in Leaves}

\* [OR|AND, t, t] with t a leaf or an inner combinator
QueryTerms ==
    {ListTerm(<<tag, x, y>>) : tag \in Tags, x \in Leaves \cup InnerTerms,
                               y \in Leaves \cup InnerTerms}

IsCombinator(q) == q.t = "list" /\ q.items # << >> /\ q.items[1] \in Tags

Perms(n) == {f \in [1..n -> 1..n] : \A i, j \in 1..n : i # j => f[i] # f[j]}

\* the terms equal to q up to permutation of the terms inside combinators,
\* at any depth
RECURSIVE Variants(_)
Variants(q) ==
    IF ~IsCombinator(q) THEN {q}
    ELSE LET args == Tail(q.items)
             n == Len(args)
             pool == UNION {Variants(args[i]) : i \in 1..n}
         IN  {ListTerm(<<q.items[1]>> \o s) :
                 s \in {t \in [1..n -> pool] :
                          \E f \in Perms(n) : \A i \in 1..n : t[i] \in Variants(args[f[i]])}}

HashInit ==
    /\ q1 \in QueryTerms
    /\ q2 \in Variants(q1)
    /\ hargs \in [sort : {StrLeaf(<< >>), StrLeaf(<<102>>)},
                  asc : BOOLEAN,
                  collections : {<<StrLeaf(<<97>>)>>,
                                 <<StrLeaf(<<98>>), StrLeaf(<<97>>)>>}]
    /\ hres = [pc |-> "in"]

\* the keys of both terms are computed
HashKeys ==
    /\ hres.pc = "in"
    /\ hres' = [pc |-> "done",
                h1 |-> deephash(q1), h2 |-> deephash(q2),
                key1 |-> query_cache_key(q1, hargs.sort, hargs.asc),
                key2 |-> query_cache_key(q2, hargs.sort, hargs.asc),
                keys1 |-> query_cache_keys(q1, hargs.collections, hargs.sort, hargs.asc),
                keys2 |-> query_cache_keys(q2, hargs.collections, hargs.sort, hargs.asc)]
    /\ UNCHANGED <<q1, q2, hargs, notHash>>

InitHash == HashInit /\ MergeIdle /\ ModelIdle /\ SyncIdle /\ PagerIdle /\ CacheIdle /\ BuilderIdle /\ RaceIdle

NextHash == HashKeys

SpecHash == InitHash /\ [][NextHash]_vars

\* C5: two query terms equal up to permutation of sibling terms within
\* combinators, at any nesting depth, have the same deephash, the same
\* per-backend cache key and the same combined cache key.
C5_PermutedTermsShareKeys ==
    hres.pc = "done" =>
        /\ hres.h1 = hres.h2
        /\ hres.key1 = hres.key2
        /\ hres.keys1 = hres.keys2

(***************************************************************************)
(* FieldModels built from backend model JSON and merged: with themselves   *)
(* and with each other (CombinedApi._sync_models with two backends).       *)
(* A backend lists one or two columns with unique colnames and unique      *)
(* solrnames; a field's solrtype goes with its solrname.                   *)
(***************************************************************************)
BackendSolrNames == {"s1", "s2"}

SolrTypeOf(solrname) ==
    CASE solrname = "s1" -> "string"
      [] solrname = "s2" -> "int"
      [] solrname = "s3" -> "tdouble"

\* display indices as the backend JSON gives them
JsonIdx == {None} \cup 0..(MaxIdx - 1)

\* Column for col in json_list
JsonColumns(names, solrs, idxs) ==
    [i \in 1..Len(names) |->
        NewColumn(names[i], solrs[i], SolrTypeOf(solrs[i]), i - 1, idxs[i])]

BackendModels ==
    { NewFieldModel(JsonColumns(names, solrs, idxs)) :
        <<names, solrs, idxs>> \in
            UNION { (InjSeqs(ColKeys, n) \cap [1..n -> ColKeys])
                    \X (InjSeqs(BackendSolrNames, n) \cap [1..n -> BackendSolrNames])
                    \X [1..n -> JsonIdx] : n \in 1..2 } }

ModelInit ==
    /\ fmA \in BackendModels
    /\ fmB \in BackendModels
    /\ sm = [pc |-> "init"]
    /\ pm = [pc |-> "init"]

\* fmA.merged_model(fmA)
SelfMerge ==
    /\ sm.pc = "init"
    /\ \E r \in {merged_model(fmA, fmA)} :
           /\ sm' = [pc |-> IF r.err THEN "error" ELSE "done", model |-> r.model,
                     before |-> fmA]
           /\ fmA' = r.self
    /\ UNCHANGED <<fmB, pm, notModel>>

\* fmA.merged_model(fmB)
PairMerge ==
    /\ pm.pc = "init"
    /\ \E r \in {merged_model(fmA, fmB)} :
           /\ pm' = [pc |-> IF r.err THEN "error" ELSE "done", model |-> r.model]
           /\ fmA' = r.self
           /\ fmB' = r.other
    /\ UNCHANGED <<sm, notModel>>

InitModel == ModelInit /\ MergeIdle /\ HashIdle /\ SyncIdle /\ PagerIdle /\ CacheIdle /\ BuilderIdle /\ RaceIdle

NextModel ==
    \/ SelfMerge
    \/ PairMerge

SpecModel == InitModel /\ [][NextModel]_vars

ColNames(fm) == [i \in 1..Len(fm.columns) |-> fm.columns[i].colname]
SolrNamesOf(fm) == [i \in 1..Len(fm.columns) |-> fm.columns[i].solrname]
NoRepeat(s) == \A i, j \in 1..Len(s) : i # j => s[i] # s[j]

\* the numbered display indices grow strictly along the column order
IdxIncreasing(fm) ==
    \A i, j \in 1..Len(fm.columns) :
        (i < j /\ fm.columns[i].displaycolidx # None /\ fm.columns[j].displaycolidx # None)
            => fm.columns[i].displaycolidx < fm.columns[j].displaycolidx

\* C8 as stated: merging any FieldModel with itself gives its columns back,
\* in the same order with the same field values
C8_SelfMergeIdentity ==
    sm.pc # "init" => (sm.pc = "done" /\ sm.model.columns = sm.before.columns)

\* C8, amended: merging a FieldModel with itself gives its columns back, in
\* the same order with the same field values, when its numbered display
\* indices grow strictly along its column order
C8_SelfMergeIdentityWhenOrdered ==
    (sm.pc # "init" /\ IdxIncreasing(sm.before))
        => (sm.pc = "done" /\ sm.model.columns = sm.before.columns)

C8_Witness ==
    /\ sm.pc = "done"
    /\ IdxIncreasing(sm.before)
    /\ Len(sm.before.columns) = 3
    /\ sm.before.columns[2].displaycolidx = None
    /\ sm.before.columns[3].displaycolidx = 1
    /\ sm.model.columns = sm.before.columns

\* C9: no two columns of a FieldModel share a colname or a solrname: the
\* backends' models and the model merged from them
C9_NamesUnique ==
    /\ NoRepeat(ColNames(fmA)) /\ NoRepeat(SolrNamesOf(fmA))
    /\ NoRepeat(ColNames(fmB)) /\ NoRepeat(SolrNamesOf(fmB))
    /\ pm.pc = "done" =>
          /\ NoRepeat(ColNames(pm.model))
          /\ NoRepeat(SolrNamesOf(pm.model))

(***************************************************************************)
(* The coordinator's model synchronisation: start(), model(poke=True) and  *)
(* the re-discovery of list_collections as tasks of one event loop.  A     *)
(* step runs a task from one suspension point to the next; a backend       *)
(* answers with what it serves at the moment the task resumes.  start()    *)
(* awaits each api.start() itself, so it runs on from the last one to its  *)
(* end without suspending; model() awaits a gather, so it resumes in a     *)
(* step of its own after the last check_if_stale.  A task that returned is  *)
(* dropped from tasks; one that raised stays, with pc = "failed".  Every    *)
(* backend serves version 1 of its field model at first.                   *)
(***************************************************************************)
\* the versions of fldmodel.json a backend may serve: 1 and 2 differ in the
\* backend name of x, 3 is 1 spelled in full with the collection column,
\* 4 gives x a type that does not merge with the others
SchemaVersions == 1..4

SchemaJson(v) ==
    CASE v = 1 -> [full |-> FALSE, cols |-> <<NewColumn("x", "s1", "string", 0, 0)>>]
      [] v = 2 -> [full |-> FALSE, cols |-> <<NewColumn("x", "s2", "int", 0, 0),
                                              NewColumn("y", "s1", "string", 1, 1)>>]
      [] v = 3 -> [full |-> TRUE, cols |-> <<CollectionColumn,
                                             NewColumn("x", "s1", "string", 1, 1)>>]
      [] v = 4 -> [full |-> FALSE, cols |-> <<NewColumn("x", "s3", "tdouble", 0, 0)>>]

\* _list_collections: the names the page lists, in page order
ListedCollections == SelectSeq(Collections, LAMBDA c : c \in disc)

\* the tasks without task t, which returned
Returned(t) == [k \in 1..(Len(tasks) - 1) |-> IF k < t THEN tasks[k] ELSE tasks[k + 1]]

\* a client that neither the coordinator c nor a task of ts refers to is
\* garbage: the clients cl with a blank record in its place
Collected(cl, c, ts) ==
    [k \in 1..Len(cl) |->
        IF \/ \E j \in 1..Len(c.apis) : c.apis[j] = k
           \/ \E t \in 1..Len(ts) : ts[t].pc # "failed" /\ \E j \in 1..Len(ts[t].apis) : ts[t].apis[j] = k
        THEN cl[k]
        ELSE NewClient("")]

Stale(cl, ids) == \E j \in 1..Len(ids) : cl[ids[j]].stale

\* the clients cl with the clients ids replaced by cls
WithClients(cl, ids, cls) ==
    [k \in 1..Len(cl) |->
        IF \E j \in 1..Len(ids) : ids[j] = k
        THEN cls[CHOOSE j \in 1..Len(ids) : ids[j] = k]
        ELSE cl[k]]

SyncInit ==
    /\ disc \in (SUBSET Range(Collections)) \ {{}}
    /\ json = [c \in Range(Collections) |-> 1]
    /\ envLeft = MaxEnvChanges
    /\ clients = << >>
    /\ co = [has_apis |-> FALSE, apis |-> << >>, model_id |-> NoObject,
             model |-> NoFieldModel, collections |-> << >>, ready |-> FALSE,
             caches |-> 1, objects |-> 0]
    /\ tasks = << >>
    /\ callsLeft = [boot |-> 1, starts |-> MaxRestarts, pokes |-> MaxPokes]

\* a backend starts to serve another field model
EnvSchema ==
    /\ envLeft > 0
    /\ \E c \in Range(Collections), v \in SchemaVersions :
          /\ v # json[c]
          /\ json' = [json EXCEPT ![c] = v]
    /\ envLeft' = envLeft - 1
    /\ UNCHANGED <<disc, clients, co, tasks, callsLeft, notSync>>

\* the discovery page lists another set of collections
EnvDiscovery ==
    /\ envLeft > 0
    /\ \E S \in (SUBSET Range(Collections)) \ {{}} :
          /\ S # disc
          /\ disc' = S
    /\ envLeft' = envLeft - 1
    /\ UNCHANGED <<json, clients, co, tasks, callsLeft, notSync>>

NewStartTask == [kind |-> "start", pc |-> "list", apis |-> << >>, i |-> 1]

\* main.py runs the first start() before anything else
Boot ==
    /\ callsLeft.boot > 0
    /\ tasks' = <<NewStartTask>>
    /\ callsLeft' = [callsLeft EXCEPT !.boot = @ - 1]
    /\ UNCHANGED <<disc, json, envLeft, clients, co, notSync>>

\* list_collections resumes with a page that differs from _collections and
\* schedules start()
ListCollections ==
    /\ co.ready
    /\ callsLeft.starts > 0
    /\ Range(co.collections) # disc
    /\ tasks' = Append(tasks, NewStartTask)
    /\ callsLeft' = [callsLeft EXCEPT !.starts = @ - 1]
    /\ UNCHANGED <<disc, json, envLeft, clients, co, notSync>>

\* start() resumes from _list_collections and makes the clients
StartList(t) ==
    /\ tasks[t].kind = "start" /\ tasks[t].pc = "list"
    /\ LET cs == ListedCollections
       IN  /\ clients' = clients \o [j \in 1..Len(cs) |-> NewClient(cs[j])]
           /\ tasks' = [tasks EXCEPT ![t].pc = "apis",
                                     ![t].apis = [j \in 1..Len(cs) |-> Len(clients) + j]]
    /\ UNCHANGED <<disc, json, envLeft, co, callsLeft, notSync>>

\* CombinedApi.model from `if stale_poke or any(api.stale ...)` on, for the
\* coordinator c over the clients cl: .err for an exception (of
\* _sync_models, or of serialized() on a _model that is None)
ModelCall(cl, c, stale_poke) ==
    IF stale_poke \/ Stale(cl, c.apis)
    THEN The({[err |-> r.err,
               clients |-> WithClients(cl, c.apis, r.clients),
               co |-> IF r.err THEN [c EXCEPT !.objects = @ + 1]
                      ELSE [c EXCEPT !.objects = @ + 1, !.model_id = c.objects + 1,
                                     !.model = r.model, !.caches = @ + 1]] :
                r \in {sync_models([j \in 1..Len(c.apis) |-> cl[c.apis[j]]],
                                   c.objects + 1)}})
    ELSE [err |-> c.model_id = NoObject, clients |-> cl, co |-> c]

\* start() resumes from an api.start(); after the last one it runs to its
\* end: the clients become the coordinator's, model(poke=False)
\* synchronises them, and _collections and ready are set
StartApi(t) ==
    /\ tasks[t].kind = "start" /\ tasks[t].pc = "apis"
    /\ \E ids \in {tasks[t].apis} :
       \E id \in {ids[tasks[t].i]} :
       \E cl \in {[clients EXCEPT ![id] =
                     StartClient(clients[id], SchemaJson(json[clients[id].collection]))]} :
          IF tasks[t].i < Len(ids)
          THEN /\ clients' = cl
               /\ tasks' = [tasks EXCEPT ![t].i = @ + 1]
               /\ co' = co
          ELSE \E r \in {ModelCall(cl, [co EXCEPT !.has_apis = TRUE, !.apis = ids], FALSE)} :
                  /\ tasks' = IF r.err THEN [tasks EXCEPT ![t].pc = "failed"]
                              ELSE Returned(t)
                  /\ co' = IF r.err THEN r.co
                           ELSE [r.co EXCEPT
                                   !.collections = [j \in 1..Len(ids) |->
                                                      cl[ids[j]].collection],
                                   !.ready = TRUE]
                  /\ clients' = Collected(r.clients, co', tasks')
    /\ UNCHANGED <<disc, json, envLeft, callsLeft, notSync>>

\* model(poke=True) is called and starts check_if_stale on every client
PokeBegin ==
    /\ co.ready
    /\ callsLeft.pokes > 0
    /\ tasks' = Append(tasks, [kind |-> "model", pc |-> "gather", apis |-> co.apis,
                               pending |-> 1..Len(co.apis), stale_poke |-> FALSE])
    /\ callsLeft' = [callsLeft EXCEPT !.pokes = @ - 1]
    /\ UNCHANGED <<disc, json, envLeft, clients, co, notSync>>

\* one check_if_stale of the gather resumes from its fetch and returns
PokeCheck(t) ==
    /\ tasks[t].kind = "model" /\ tasks[t].pc = "gather"
    /\ \E j \in tasks[t].pending :
       \E id \in {tasks[t].apis[j]} :
       \E checked \in {FetchModel(clients[id], SchemaJson(json[clients[id].collection]))} :
          /\ clients' = [clients EXCEPT ![id] = checked]
          /\ tasks' = [tasks EXCEPT
                         ![t].pending = @ \ {j},
                         ![t].stale_poke = @ \/ checked.stale,
                         ![t].pc = IF tasks[t].pending = {j} THEN "resume" ELSE "gather"]
    /\ UNCHANGED <<disc, json, envLeft, co, callsLeft, notSync>>

\* model(poke=True) resumes from the gather
PokeFinish(t) ==
    /\ tasks[t].kind = "model" /\ tasks[t].pc = "resume"
    /\ \E r \in {ModelCall(clients, co, tasks[t].stale_poke)} :
          /\ co' = r.co
          /\ tasks' = IF r.err THEN [tasks EXCEPT ![t].pc = "failed"] ELSE Returned(t)
          /\ clients' = Collected(r.clients, co', tasks')
    /\ UNCHANGED <<disc, json, envLeft, callsLeft, notSync>>

InitSync == SyncInit /\ MergeIdle /\ HashIdle /\ ModelIdle /\ PagerIdle /\ CacheIdle /\ BuilderIdle /\ RaceIdle

NextSync ==
    \/ EnvSchema
    \/ EnvDiscovery
    \/ Boot
    \/ ListCollections
    \/ \E t \in 1..Len(tasks) : StartList(t)
    \/ \E t \in 1..Len(tasks) : StartApi(t)
    \/ PokeBegin
    \/ \E t \in 1..Len(tasks) : PokeCheck(t)
    \/ \E t \in 1..Len(tasks) : PokeFinish(t)

SpecSync == InitSync /\ [][NextSync]_vars

\* C10: every client of the coordinator's apis list and of its _api_map has
\* follow_model None or the coordinator's current combined model, in every
\* state between two steps of the tasks
C10_FollowIsCurrentModel ==
    co.has_apis =>
        \A j \in 1..Len(co.apis) :
            \/ clients[co.apis[j]].follow_model = NoObject
            \/ clients[co.apis[j]].follow_model = co.model_id

\* a second synchronisation rebound the coordinator's clients while a
\* start() of a re-discovery is under way
C10_Witness ==
    /\ co.ready
    /\ co.model_id >= 2
    /\ \A j \in 1..Len(co.apis) : clients[co.apis[j]].follow_model = co.model_id
    /\ \E t \in 1..Len(tasks) : tasks[t].kind = "start" /\ tasks[t].pc = "apis"

(***************************************************************************)
(* controller.py: CombinedApi.query, the federating pager, for one global  *)
(* query qargs against the backends' documents.  A request runs from its   *)
(* start to its end without another task in between.  The coordinator has  *)
(* started: both collections have a client bound to the combined model.    *)
(*                                                                         *)
(* The run of a request is a record r: st ("loop" while the drip loop      *)
(* runs), results and names (the keys of results in insertion order),      *)
(* cursors (the object cache_dict['ending_cursors']), docs, alias (docs is *)
(* still the list object cache_dict['last_trickle']), e (cache_dict),      *)
(* current_page, bc (the clients' cache entries) and page.  The combined   *)
(* cache holds one entry, that of the query: [present, pages,              *)
(* ending_cursors, total, last_page, last_trickle, finished]; pages is the *)
(* list of the pages 0, 1, ..., and finished records that the termination  *)
(* branch of the loop ran on the entry.                                    *)
(***************************************************************************)
\* self._api_map[c]
ApiOf(c) == clients[CHOOSE id \in Range(co.apis) : clients[id].collection = c]

\* the resolution of the sort argument: "" for no sort, "?" for the
\* validation error
SortSolrname ==
    IF qargs.sort = "" THEN ""
    ELSE IF ResolveSolrname(co.model, qargs.sort) # "" THEN ResolveSolrname(co.model, qargs.sort)
    ELSE IF qargs.sort = COLLECTION_SOLRNAME THEN qargs.sort
    ELSE "?"

\* api.query(queryTerms, True, sort_solrname, asc, page, cache) on the
\* client of c
FetchPage(bc, c, page) ==
    api_query(ApiOf(c), bc[c], backend[c], DEFAULT_QUERY_ROWS, SortSolrname, qargs.asc, page)

\* `results = {c: await ... for c in collections}` from the i-th collection
\* on: acc is [results, bc]
RECURSIVE FetchAll(_, _, _)
FetchAll(cursors, i, acc) ==
    IF i > Len(qargs.collections) THEN acc
    ELSE The({FetchAll(cursors, i + 1,
                       [results |-> [c \in DOMAIN acc.results \cup {qargs.collections[i]} |->
                                        IF c = qargs.collections[i] THEN f.resp
                                        ELSE acc.results[c]],
                        bc |-> [acc.bc EXCEPT ![qargs.collections[i]] = f.cache]]) :
                f \in {FetchPage(acc.bc, qargs.collections[i],
                                 cursors[qargs.collections[i]].page)}})

\* the total of the first collection alone
FirstTotal(results) == results[qargs.collections[1]].total

SumTotals(results) ==
    SumSeq([i \in 1..Len(qargs.collections) |-> results[qargs.collections[i]].total])

\* the request up to the drip loop when docs starts empty instead of from
\* the last_trickle of the entry
PagerEnterFresh(cc, cursors, fetched, page) ==
    LET e == IF cc.present THEN cc
             ELSE [present |-> TRUE, pages |-> << >>, ending_cursors |-> cursors,
                   total |-> SumTotals(fetched.results),
                   last_page |-> LastPageOf(SumTotals(fetched.results), DEFAULT_QUERY_ROWS),
                   last_trickle |-> << >>, finished |-> FALSE]
    IN  [st |-> IF page > e.last_page THEN "422" ELSE "loop",
         results |-> fetched.results, names |-> qargs.collections, cursors |-> cursors,
         docs |-> << >>, alias |-> FALSE, e |-> e,
         current_page |-> Len(e.pages), bc |-> fetched.bc, page |-> page]

\* the request up to the drip loop, for the entry cc that cache.get gave
\* and the fetched results
PagerEnter(cc, cursors, fetched, page) ==
    LET e == IF cc.present THEN cc
             ELSE [present |-> TRUE, pages |-> << >>, ending_cursors |-> cursors,
                   total |-> SumTotals(fetched.results),
                   last_page |-> LastPageOf(SumTotals(fetched.results), DEFAULT_QUERY_ROWS),
                   last_trickle |-> << >>, finished |-> FALSE]
    IN  [st |-> IF page > e.last_page THEN "422" ELSE "loop",
         results |-> fetched.results, names |-> qargs.collections, cursors |-> cursors,
         docs |-> e.last_trickle, alias |-> TRUE, e |-> e,
         current_page |-> Len(e.pages), bc |-> fetched.bc, page |-> page]

\* { c: [0, 0] for c in collections }
ZeroCursors == [c \in Range(qargs.collections) |-> [page |-> 0, off |-> 0]]

\* the cursors of a request that starts over whatever the entry holds
CursorsFromStart == ZeroCursors

\* the cursors a request starts from: those of the entry, if there is one
StartCursors == IF ccache.present THEN ccache.ending_cursors ELSE ZeroCursors

\* CombinedApi.query up to the drip loop: st is "422" for a validation
\* error, "hit" when the page is in the entry, "loop" otherwise
PagerBegin(page) ==
    IF page < 0 \/ SortSolrname = "?"
    THEN [st |-> "422", e |-> ccache, bc |-> bcache, page |-> page]
    ELSE IF ccache.present /\ page < Len(ccache.pages)
    THEN [st |-> "hit", e |-> ccache, bc |-> bcache, page |-> page]
    ELSE The({PagerEnter(ccache, cursors, fetched, page) :
                <<cursors, fetched>> \in
                   { <<cu, FetchAll(cu, 1, [results |-> << >>, bc |-> bcache])>> :
                       cu \in {StartCursors} }})

\* the refills when the cursor of a collection stays on its backend page
RECURSIVE RefillSamePage(_, _, _)
RefillSamePage(more, i, acc) ==
    IF i > Len(more) THEN acc
    ELSE The({RefillSamePage(more, i + 1,
                     [results |-> [acc.results EXCEPT ![more[i]] = f.resp],
                      cursors |-> [acc.cursors EXCEPT ![more[i]] =
                                      [page |-> acc.cursors[more[i]].page, off |-> 0]],
                      bc |-> [acc.bc EXCEPT ![more[i]] = f.cache]]) :
                f \in {FetchPage(acc.bc, more[i], acc.cursors[more[i]].page)}})

\* the collections to refill, from the i-th of more on: acc is [results,
\* cursors, bc]
RECURSIVE Refill(_, _, _)
Refill(more, i, acc) ==
    IF i > Len(more) THEN acc
    ELSE The({Refill(more, i + 1,
                     [results |-> [acc.results EXCEPT ![more[i]] = f.resp],
                      cursors |-> [acc.cursors EXCEPT ![more[i]] =
                                      [page |-> acc.cursors[more[i]].page + 1, off |-> 0]],
                      bc |-> [acc.bc EXCEPT ![more[i]] = f.cache]]) :
                f \in {FetchPage(acc.bc, more[i], acc.cursors[more[i]].page + 1)}})

\* the pages docs[i:i + rows] that are full, and the rest
FullPages(all) ==
    [k \in 1..(Len(all) \div DEFAULT_QUERY_ROWS) |->
        SubSeq(all, (k - 1) * DEFAULT_QUERY_ROWS + 1, k * DEFAULT_QUERY_ROWS)]

RestOf(all) == Drop(all, (Len(all) \div DEFAULT_QUERY_ROWS) * DEFAULT_QUERY_ROWS)

\* one pass of the drip loop after the dripper gave d
PagerPass(r, d) ==
    LET all == r.docs \o d.out
        trickle == IF r.alias THEN all ELSE r.e.last_trickle
        at_end == SelectSeq(r.names, LAMBDA c : AtBufferEnd(r.results, d.cursors, c))
        more == SelectSeq(at_end, LAMBDA c : d.cursors[c].page < r.results[c].last_page)
        docs == RestOf(all)
        pages == r.e.pages \o FullPages(all)
        current_page == r.current_page + Len(FullPages(all))
    IN  IF d.crash
        THEN [r EXCEPT !.st = "crash", !.cursors = d.cursors, !.docs = all,
                       !.e.last_trickle = trickle]
        ELSE IF Len(at_end) = Len(r.names) /\ more = << >>
        THEN [r EXCEPT !.st = "done", !.cursors = d.cursors, !.docs = docs, !.alias = FALSE,
                       !.e.pages = IF docs # << >> THEN Append(pages, docs) ELSE pages,
                       !.e.last_trickle = IF docs # << >> THEN << >> ELSE trickle,
                       !.e.finished = TRUE,
                       !.current_page = IF docs # << >> THEN current_page + 1
                                        ELSE current_page]
        ELSE IF current_page > r.page
        THEN [r EXCEPT !.st = "done", !.cursors = d.cursors, !.docs = docs, !.alias = FALSE,
                       !.e.pages = pages, !.e.last_trickle = docs,
                       !.current_page = current_page]
        ELSE The({[r EXCEPT !.results = [c \in Range(r.names) \ (Range(at_end) \ Range(more)) |->
                                            f.results[c]],
                            !.names = SelectSeq(r.names, LAMBDA c :
                                          c \notin (Range(at_end) \ Range(more))),
                            !.cursors = f.cursors, !.bc = f.bc,
                            !.docs = docs, !.alias = FALSE,
                            !.e.pages = pages, !.e.last_trickle = trickle,
                            !.current_page = current_page] :
                    f \in {Refill(more, 1, [results |-> r.results, cursors |-> d.cursors,
                                            bc |-> r.bc])}})

\* one pass of `while True`
PagerIter(r) ==
    The({PagerPass(r, d) :
            d \in {drip(r.results, r.names, r.cursors, qargs.asc, SortSolrname, rng)}})

RECURSIVE PagerRun(_)
PagerRun(r) ==
    IF r.st # "loop" THEN r ELSE The({PagerRun(n) : n \in {PagerIter(r)}})

\* CombinedApi.query(queryTerms, collections, sort, asc, page): the run at
\* its end
query(page) == The({PagerRun(r) : r \in {PagerBegin(page)}})

(***************************************************************************)
(* The pager's specification: requests for pages of one query, one after   *)
(* the other, while the entries of the caches may expire (TTL).            *)
(***************************************************************************)
\* most documents in a backend
MaxDocs == 3

\* most cache entries that expire
MaxExpiries == 1

\* the values a document has in column x
MaxValue == 2

\* the pages requested: from -1 to one past the last page there can be
PageNumbers == (0 - 1)..CeilDiv(2 * MaxDocs, DEFAULT_QUERY_ROWS)

SeqsUpTo(S, n) == UNION {[1..k -> S] : k \in 0..n}

\* the coordinator and its clients after start(), when the backends a and
\* b serve the field models vs[1] and vs[2]: [err, clients, co]
Started(vs) ==
    The({[err |-> r.err, clients |-> r.clients,
          co |-> [r.co EXCEPT !.collections = Collections, !.ready = TRUE]] :
            r \in {ModelCall([j \in 1..Len(Collections) |->
                                 StartClient(NewClient(Collections[j]), SchemaJson(vs[j]))],
                             [has_apis |-> TRUE,
                              apis |-> [j \in 1..Len(Collections) |-> j],
                              model_id |-> NoObject, model |-> NoFieldModel,
                              collections |-> << >>, ready |-> FALSE,
                              caches |-> 1, objects |-> 0],
                             FALSE)}})

\* the sort arguments: none, the collection, the columns x and y
SortArguments == {"", COLLECTION_SOLRNAME, "x", "y"}

PagerInit ==
    /\ \E vs \in {<<1, 1>>, <<1, 2>>, <<2, 1>>} :
       \E s \in {Started(vs)} :
          /\ json = [c \in Range(Collections) |->
                        vs[CHOOSE j \in 1..Len(Collections) : Collections[j] = c]]
          /\ clients = s.clients
          /\ co = s.co
    /\ disc = Range(Collections) /\ envLeft = 0 /\ tasks = << >>
    /\ callsLeft = [boot |-> 0, starts |-> 0, pokes |-> 0]
    /\ qargs \in [collections : InjSeqs(Range(Collections), Len(Collections)) \ {<< >>},
                  sort : SortArguments, asc : BOOLEAN]
    /\ backend \in [Range(Collections) -> SeqsUpTo(1..MaxValue, MaxDocs)]
    /\ \A c \in Range(Collections) :
          /\ c \notin Range(qargs.collections) => backend[c] = << >>
          /\ qargs.sort # "x" => \A i \in 1..Len(backend[c]) : backend[c][i] = 1
    /\ rng \in [1..2 -> 0..1]
    /\ qargs.sort # "" => rng = [i \in 1..2 |-> 0]
    /\ ccache = NoEntry
    /\ bcache = [c \in Range(Collections) |-> NoEntry]
    /\ ttlLeft = MaxExpiries
    /\ served = [p \in PageNumbers |-> << >>]
    /\ last = [status |-> "none", repeat |-> "", same |-> TRUE]

\* cache_dict, had its cursors been a copy that the loop leaves alone
EntryWithOldCursors(r) == r.e

\* cache_dict with its cursors as the request leaves them
EntryOf(r) == [r.e EXCEPT !.ending_cursors = r.cursors]

\* a request for page `page` of the query, from its start to its end: the
\* validation errors (422), the page from the entry, the page after the
\* drip loop stored the entry, or an exception out of a dripper or of
\* `cache_dict['pages'][page]`, which leaves the entry that was in the cache
\* as the loop changed it
Query(page) ==
    /\ \E r \in {query(page)} :
          /\ ccache' = CASE r.st = "done" -> EntryOf(r)
                         [] r.st = "crash" /\ ccache.present -> EntryOf(r)
                         [] OTHER -> ccache
          /\ bcache' = r.bc
          /\ \E status \in {CASE r.st = "422" -> "422"
                              [] r.st = "crash" -> "error"
                              [] r.st = "done" /\ page >= Len(r.e.pages) -> "error"
                              [] OTHER -> "ok"} :
                IF status = "ok"
                THEN /\ served' = [served EXCEPT ![page] = r.e.pages[page + 1]]
                     /\ last' = [status |-> status,
                                 repeat |-> IF served[page] = << >> THEN ""
                                            ELSE IF r.st = "hit" THEN "hit" ELSE "run",
                                 same |-> served[page] \in {<< >>, r.e.pages[page + 1]}]
                ELSE /\ served' = served
                     /\ last' = [status |-> status,
                                 repeat |-> IF served[page] = << >> THEN "" ELSE "run",
                                 same |-> served[page] = << >>]
    /\ UNCHANGED <<qargs, backend, rng, ttlLeft, notPager>>

\* the entry of the query in the combined cache expires
ExpireCombined ==
    /\ ttlLeft > 0
    /\ ccache.present
    /\ ccache' = NoEntry
    /\ ttlLeft' = ttlLeft - 1
    /\ UNCHANGED <<qargs, backend, rng, bcache, served, last, notPager>>

\* the entry of the query in the cache of a client expires
ExpireBackend(c) ==
    /\ ttlLeft > 0
    /\ bcache[c].present
    /\ bcache' = [bcache EXCEPT ![c] = NoEntry]
    /\ ttlLeft' = ttlLeft - 1
    /\ UNCHANGED <<qargs, backend, rng, ccache, served, last, notPager>>

InitPager == PagerInit /\ MergeIdle /\ HashIdle /\ ModelIdle /\ CacheIdle /\ BuilderIdle /\ RaceIdle

NextPager ==
    \/ \E page \in PageNumbers : Query(page)
    \/ ExpireCombined
    \/ \E c \in Range(Collections) : ExpireBackend(c)

SpecPager == InitPager /\ [][NextPager]_vars

\* the documents of the pages, one page after the other
RECURSIVE Concat(_)
Concat(pages) == IF pages = << >> THEN << >> ELSE Head(pages) \o Concat(Tail(pages))

\* every page from 0 to last_page is in the entry
AllPagesCommitted == ccache.present /\ Len(ccache.pages) = ccache.last_page + 1

\* both collections are selected and hold documents
BothHoldDocuments ==
    Len(qargs.collections) = 2 /\ \A c \in Range(Collections) : backend[c] # << >>

\* C1: once the pages 0..last_page are committed, they hold total
\* documents, and every document of every selected backend is in them
\* exactly once
C1_EveryDocumentOnce ==
    AllPagesCommitted =>
        /\ Len(Concat(ccache.pages)) = ccache.total
        /\ ccache.total = SumSeq([j \in 1..Len(qargs.collections) |->
                                    Len(backend[qargs.collections[j]])])
        /\ \A c \in Range(qargs.collections) : \A i \in 1..Len(backend[c]) :
              Cardinality({k \in 1..Len(Concat(ccache.pages)) :
                              /\ Concat(ccache.pages)[k].coll = c
                              /\ Concat(ccache.pages)[k].spid = i}) = 1

\* the pages 0, 1 and 2 of two collections were requested, no entry
\* expired, and all of them are committed, after a refill of a backend page
C1_Witness ==
    /\ AllPagesCommitted /\ BothHoldDocuments
    /\ ccache.last_page = 2
    /\ \A p \in 0..2 : served[p] # << >>
    /\ ttlLeft = MaxExpiries
    /\ \E c \in Range(Collections) : ccache.ending_cursors[c].page = 1

\* C2: a request for a page that an earlier request returned returns the
\* same documents in the same order, from the entry or after the drip loop
C2_SamePageSameDocuments == last.repeat # "" => last.same

\* a page of the random interleaving of two collections was returned again
\* after the entry of the combined cache expired and the loop ran anew
C2_Witness ==
    /\ last.repeat = "run" /\ last.status = "ok"
    /\ qargs.sort = "" /\ BothHoldDocuments
    /\ \E p \in 1..2 : served[p] # << >>

\* the sort argument names a field of the combined model other than coll
SortedOnField == SortSolrname \notin {"", "?", COLLECTION_SOLRNAME}

\* docs is monotone in field f in the direction asc
Monotone(docs, f, asc) ==
    \A k \in 1..(Len(docs) - 1) :
        (f \in DOMAIN docs[k].vals /\ f \in DOMAIN docs[k + 1].vals) =>
            IF asc THEN docs[k].vals[f] <= docs[k + 1].vals[f]
            ELSE docs[k].vals[f] >= docs[k + 1].vals[f]

\* C3: for a sort on a field other than coll, the documents of the
\* committed pages, one page after the other, are monotone in that field in
\* the requested direction
C3_FieldOrderMonotone ==
    (ccache.present /\ SortedOnField) =>
        Monotone(Concat(ccache.pages), SortSolrname, qargs.asc)

Consumed(e) ==
    SumSeq([j \in 1..Len(qargs.collections) |->
              e.ending_cursors[qargs.collections[j]].page * DEFAULT_QUERY_ROWS
                  + e.ending_cursors[qargs.collections[j]].off])

\* C11: the documents of the committed pages and of last_trickle together
\* are never more than the documents the cursors have passed, and
\* last_trickle is empty once the loop has ended on the last documents
C11_EmittedWithinConsumed ==
    ccache.present =>
        /\ Len(Concat(ccache.pages)) + Len(ccache.last_trickle) <= Consumed(ccache)
        /\ ccache.finished => ccache.last_trickle = << >>

(***************************************************************************)
(* The pager over backends that gain documents between the requests, for   *)
(* the queries whose order does not depend on the documents' values.       *)
(***************************************************************************)
\* a selected backend gains a document
BackendGrows(c) ==
    /\ c \in Range(qargs.collections)
    /\ Len(backend[c]) < MaxDocs
    /\ backend' = [backend EXCEPT ![c] = Append(@, 1)]
    /\ UNCHANGED <<qargs, rng, ccache, bcache, ttlLeft, served, last, notPager>>

InitGrow == InitPager /\ qargs.sort \in {"", COLLECTION_SOLRNAME}

NextGrow ==
    \/ NextPager
    \/ \E c \in Range(Collections) : BackendGrows(c)

SpecGrow == InitGrow /\ [][NextGrow]_vars

\* the total of the client's entry for each selected collection, summed:
\* what the clients returned as total in the last request that asked them
ReturnedTotals(bc) ==
    SumSeq([j \in 1..Len(qargs.collections) |-> bc[qargs.collections[j]].total])

\* C12: a request that creates the combined entry gives it the sum of the
\* totals the selected clients returned, and no later step changes the
\* total of an entry
C12_TotalFixedAtFirstPopulation ==
    [][/\ (~ccache.present /\ ccache'.present) => ccache'.total = ReturnedTotals(bcache')
       /\ (ccache.present /\ ccache'.present) => ccache'.total = ccache.total]_vars

\* an entry of two collections served a further page after a backend had
\* gained a document, and still has the total of its first population
C12_Witness ==
    /\ ccache.present /\ Len(qargs.collections) = 2
    /\ Len(ccache.pages) >= 2 /\ last.status = "ok"
    /\ ccache.total # SumSeq([j \in 1..Len(qargs.collections) |->
                                Len(backend[qargs.collections[j]])])

\* the last_page a request goes by: that of the entry, or for a new entry
\* the one computed from the totals the clients return in the request
RequestLastPage ==
    IF ccache.present THEN ccache.last_page
    ELSE LastPageOf(ReturnedTotals(bcache'), DEFAULT_QUERY_ROWS)

\* the request was answered with the validation error and left the
\* combined cache as it was
Rejected == last'.status = "422" /\ ccache' = ccache

\* C13: a request with a negative page or with a sort that is neither a
\* colname nor a solrname of the combined model is answered with 422,
\* leaves the combined cache unchanged and issues no backend request (a
\* backend request with cache=True always stores its page in the client's
\* entry); a request with page > last_page is answered with 422 and leaves
\* the combined cache unchanged
C13_ValidationErrors ==
    [][\A page \in PageNumbers :
          Query(page) =>
              /\ (page < 0 \/ SortSolrname = "?") => (Rejected /\ bcache' = bcache)
              /\ (page >= 0 /\ SortSolrname # "?" /\ page > RequestLastPage) => Rejected]_vars

(***************************************************************************)
(* A QueryCache on its own: get() and set() calls on two keys while the    *)
(* timer advances.                                                         *)
(***************************************************************************)
Absent == [value |-> "None", expires |-> 0]

CacheInit ==
    /\ clock = 0
    /\ store = [k \in CacheKeys |-> Absent]
    /\ lastUse = [k \in CacheKeys |-> None]
    /\ lastSet = [k \in CacheKeys |-> None]
    /\ got = [key |-> "", res |-> "None", at |-> None]

CacheTick ==
    /\ clock < MaxTime
    /\ clock' = clock + 1
    /\ UNCHANGED <<store, lastUse, lastSet, got, notCache>>

CacheGet(key) ==
    \E r \in {QueryCache_get(store, key, clock)} :
        /\ store' = r.cache
        /\ got' = [key |-> key, res |-> r.res, at |-> clock]
        /\ lastUse' = IF r.res # "None" THEN [lastUse EXCEPT ![key] = clock] ELSE lastUse
        /\ UNCHANGED <<clock, lastSet, notCache>>

CacheSet(key, value) ==
    /\ store' = QueryCache_set(store, key, value, clock)
    /\ lastUse' = [lastUse EXCEPT ![key] = clock]
    /\ lastSet' = [lastSet EXCEPT ![key] = clock]
    /\ UNCHANGED <<clock, got, notCache>>

InitCache == CacheInit /\ MergeIdle /\ HashIdle /\ ModelIdle /\ SyncIdle /\ PagerIdle /\ BuilderIdle /\ RaceIdle

NextCache ==
    \/ CacheTick
    \/ \E key \in CacheKeys : CacheGet(key)
    \/ \E key \in CacheKeys, value \in CachedValues : CacheSet(key, value)

SpecCache == InitCache /\ [][NextCache]_vars

\* what a get(key) would return now
WouldGet(key) == QueryCache_get(store, key, clock).res

\* C14: a get() that finds its key at time t leaves the entry's expiry at
\* t + ttl, and a key that was ever set is found exactly as long as less
\* than ttl has passed since it was last set or found: reading it at
\* intervals shorter than ttl keeps it for ever, leaving it alone for ttl
\* makes it a miss.
C14_TouchOnRead ==
    \A key \in CacheKeys :
        /\ (got.key = key /\ got.res # "None" /\ got.at = clock)
              => store[key].expires = clock + TTL
        /\ lastUse[key] # None
              => (WouldGet(key) # "None" <=> clock - lastUse[key] < TTL)

\* a key is still found more than ttl after it was last set, and the other
\* key, set and left alone, is a miss
C14_Witness ==
    \E key \in CacheKeys, other \in CacheKeys :
        /\ lastSet[key] # None /\ clock - lastSet[key] > TTL
        /\ got.key = key /\ got.res # "None" /\ got.at = clock
        /\ other # key /\ lastSet[other] # None /\ WouldGet(other) = "None"

(***************************************************************************)
(* The pager while the backends change their field models: model() with    *)
(* poke=True finds the stale clients, merges the models again, rebinds     *)
(* every client and replaces the combined cache (_new_cache); the caches   *)
(* of the clients are made in SpecifyApi.start only and stay.  A request   *)
(* and a model() call each run from start to end here, and requests are    *)
(* made while every client holds the field model its backend serves.  The  *)
(* per-document entries of a client's cache (rinse_cache_items), which     *)
(* also outlive the rebind, are left out: the pages of the entry suffice.  *)
(***************************************************************************)
RebindInit ==
    /\ \E vs \in {<<1, 1>>, <<1, 2>>, <<2, 1>>} :
       \E s \in {Started(vs)} :
          /\ json = [c \in Range(Collections) |->
                        vs[CHOOSE j \in 1..Len(Collections) : Collections[j] = c]]
          /\ clients = s.clients
          /\ co = s.co
    /\ disc = Range(Collections) /\ envLeft = MaxEnvChanges /\ tasks = << >>
    /\ callsLeft = [boot |-> 0, starts |-> 0, pokes |-> MaxPokes]
    /\ qargs \in [collections : InjSeqs(Range(Collections), Len(Collections)) \ {<< >>},
                  sort : {""}, asc : BOOLEAN]
    /\ backend \in [Range(Collections) -> SeqsUpTo({1}, MaxDocs)]
    /\ \A c \in Range(Collections) : c \notin Range(qargs.collections) => backend[c] = << >>
    /\ rng \in [1..2 -> 0..1]
    /\ ccache = NoEntry
    /\ bcache = [c \in Range(Collections) |-> NoEntry]
    /\ ttlLeft = 0
    /\ served = [p \in PageNumbers |-> << >>]
    /\ last = [status |-> "none", repeat |-> "", same |-> TRUE]

\* the (colname, solrname) pairs of the columns after the collection column
OwnNames(columns) ==
    {<<columns[i].colname, columns[i].solrname>> :
        i \in {j \in 1..Len(columns) : columns[j].colname # "collection"}}

\* the client of c holds the field model the backend serves
HoldsServedModel(c) ==
    OwnNames(ApiOf(c).column_model.columns) = OwnNames(SchemaJson(json[c]).cols)

\* a backend starts to serve another field model
SchemaChanges(c, v) ==
    /\ envLeft > 0
    /\ v # json[c]
    /\ json' = [json EXCEPT ![c] = v]
    /\ envLeft' = envLeft - 1
    /\ UNCHANGED <<disc, clients, co, tasks, callsLeft, pagerVars,
                   mergeVars, hashVars, modelVars, cacheVars, builderVars, raceVars>>

\* check_if_stale on every client of the coordinator
RECURSIVE CheckAll(_, _)
CheckAll(cl, j) ==
    IF j > Len(co.apis) THEN cl
    ELSE CheckAll([cl EXCEPT ![co.apis[j]] =
                      FetchModel(cl[co.apis[j]], SchemaJson(json[cl[co.apis[j]].collection]))],
                  j + 1)

\* model(poke=True): the checks, _sync_models and _new_cache
Rebind ==
    /\ callsLeft.pokes > 0
    /\ \E cl \in {CheckAll(clients, 1)} :
       \E r \in {ModelCall(cl, co, Stale(cl, co.apis))} :
          /\ clients' = r.clients
          /\ co' = r.co
          /\ ccache' = IF r.co.caches # co.caches THEN NoEntry ELSE ccache
    /\ callsLeft' = [callsLeft EXCEPT !.pokes = @ - 1]
    /\ UNCHANGED <<disc, json, envLeft, tasks, qargs, backend, rng, bcache, ttlLeft,
                   served, last, mergeVars, hashVars, modelVars, cacheVars, builderVars, raceVars>>

\* a request while every client holds the model its backend serves
QueryBound(page) ==
    /\ \A c \in Range(Collections) : HoldsServedModel(c) /\ ApiOf(c).column_model.bound
    /\ Query(page)

InitRebind == RebindInit /\ MergeIdle /\ HashIdle /\ ModelIdle /\ CacheIdle /\ BuilderIdle /\ RaceIdle

NextRebind ==
    \/ \E page \in 0..1 : QueryBound(page)
    \/ \E c \in Range(Collections), v \in SchemaVersions : SchemaChanges(c, v)
    \/ Rebind

SpecRebind == InitRebind /\ [][NextRebind]_vars

\* the fields of document d as _query makes them under the field model
\* its client holds now
FieldsNow(d) ==
    LET fm == ApiOf(d.coll).column_model
    IN  Renamed([f \in {fm.columns[j].solrname : j \in 2..Len(fm.columns)} |->
                    OwnValue(fm, backend[d.coll], d.spid, f)],
                fm.changed_solrnames)

\* C17: once model() has rebound the clients, every document a request
\* returns has the fields that the post-processing under the clients'
\* present models gives it.
C17_ServedUnderNewSchema ==
    [][\A page \in 0..1 :
          (Query(page) /\ co.model_id >= 2 /\ last'.status = "ok") =>
              \A i \in 1..Len(served'[page]) :
                  served'[page][i].vals = FieldsNow(served'[page][i])]_vars

(***************************************************************************)
(* _query_builder run on its own, on the client of a started coordinator   *)
(* whose backends serve the field models 1 and 2: terms of depth up to two *)
(* over two leaves and the field names x, y (column names), s1, s2         *)
(* (backend names), collection, coll and one name no model has.            *)
(***************************************************************************)
BuilderLeaves == {QStr("a"), QInt(5)}

BuilderFields == {QStr("x"), QStr("y"), QStr("s1"), QStr("s2"), QStr("collection"),
                  QStr(COLLECTION_SOLRNAME), QStr("nope")}

\* leaves, [leaf], [field, leaf], [field, from, to]
FlatTerms ==
    BuilderLeaves
    \cup {QList(<<l>>) : l \in BuilderLeaves}
    \cup {QList(<<f, l>>) : f \in BuilderFields, l \in BuilderLeaves}
    \cup {QList(<<f, l, QInt(5)>>) : f \in BuilderFields, l \in BuilderLeaves}

\* the empty list, [field, a, b, c], ranges whose ends are lists
OddTerms ==
    {QList(<< >>)}
    \cup {QList(<<f, QStr("a"), QInt(5), l>>) : f \in BuilderFields, l \in BuilderLeaves}
    \cup {QList(<<f, QList(<<l>>), QInt(5)>>) : f \in BuilderFields, l \in BuilderLeaves}
    \cup {QList(<<f, QInt(5), QList(<<QInt(1), l, l>>)>>) : f \in BuilderFields, l \in BuilderLeaves}

BuilderTerms ==
    FlatTerms \cup OddTerms
    \cup {QList(<<op, t1, t2>>) : op \in {QInt(1), QInt(2)},
                                  t1 \in FlatTerms, t2 \in {QStr("a"), QList(<<QStr("x"), QInt(5)>>),
                                                            QList(<<QStr("y"), QStr("a"), QInt(5)>>)}}
    \cup {QList(<<op, t1, t2>>) : op \in {QInt(1), QInt(2)},
                                  t1 \in {QInt(5)}, t2 \in OddTerms}
    \cup {QList(<<f, QList(<<op, QStr("a"), QInt(5)>>)>>) : f \in BuilderFields,
                                                            op \in {QInt(1), QInt(2)}}

BuilderInit ==
    /\ qb \in [pc : {"called"},
               api : Range(Started(<<1, 2>>).clients),
               terms : BuilderTerms,
               ignore_missing : BOOLEAN]

\* the call returns or raises
Build ==
    /\ qb.pc = "called"
    /\ \E r \in {query_builder(qb.api.column_model, qb.terms, qb.ignore_missing)} :
          qb' = [pc |-> "done", api |-> qb.api, terms |-> qb.terms,
                 ignore_missing |-> qb.ignore_missing, res |-> r]
    /\ UNCHANGED notBuilder

InitBuilder ==
    BuilderInit /\ MergeIdle /\ HashIdle /\ ModelIdle /\ SyncIdle /\ PagerIdle /\ CacheIdle /\ RaceIdle

NextBuilder == Build

SpecBuilder == InitBuilder /\ [][NextBuilder]_vars

\* the field of a field-constrained or range term: a name the client's
\* model resolves
IsField(fm, x) == x.t = "str" /\ ResolveSolrname(fm, x.s) # ""

\* the terms of the four arities
RECURSIVE WellFormed(_, _)
WellFormed(fm, t) ==
    \/ IsLeaf(t)
    \/ /\ ~IsLeaf(t) /\ Len(t.items) = 1 /\ IsLeaf(t.items[1])
    \/ /\ ~IsLeaf(t) /\ Len(t.items) >= 2 /\ Combs(t.items[1]) # ""
       /\ \A i \in 2..Len(t.items) : WellFormed(fm, t.items[i])
    \/ /\ ~IsLeaf(t) /\ Len(t.items) = 2 /\ IsField(fm, t.items[1])
       /\ WellFormed(fm, t.items[2])
    \/ /\ ~IsLeaf(t) /\ Len(t.items) = 3 /\ IsField(fm, t.items[1])
       /\ IsLeaf(t.items[2]) /\ IsLeaf(t.items[3])

\* the translations of the subterms from the i-th on, in the user's order
RECURSIVE Reference(_, _)
RECURSIVE ReferenceFrom(_, _, _, _)
ReferenceFrom(fm, items, i, sep) ==
    IF i = Len(items) THEN Reference(fm, items[i])
    ELSE Reference(fm, items[i]) \o sep \o ReferenceFrom(fm, items, i + 1, sep)

\* the reference translation of a well-formed term
Reference(fm, t) ==
    IF IsLeaf(t) THEN "(" \o t.s \o ")"
    ELSE IF Len(t.items) = 1 THEN "(" \o t.items[1].s \o ")"
    ELSE IF t.items[1] = QInt(1) THEN "(" \o ReferenceFrom(fm, t.items, 2, " OR ") \o ")"
    ELSE IF t.items[1] = QInt(2) THEN "(" \o ReferenceFrom(fm, t.items, 2, " AND ") \o ")"
    ELSE IF ResolveSolrname(fm, t.items[1].s) = COLLECTION_SOLRNAME THEN "*"
    ELSE IF Len(t.items) = 2
    THEN ResolveSolrname(fm, t.items[1].s) \o ":" \o Reference(fm, t.items[2])
    ELSE ResolveSolrname(fm, t.items[1].s) \o ":[" \o t.items[2].s \o " TO " \o t.items[3].s \o "]"

\* C18: for a term of the four arities over leaves and fields the model
\* resolves, _query_builder returns the reference translation: "(x)" for a
\* leaf x and for [x], the translations joined by " OR " / " AND " in the
\* user's order inside one pair of parentheses, "<backend name>:" before
\* the translation of t for [field, t], "<backend name>:[from TO to]" for
\* a range, and "*" whenever the field resolves to coll.
C18_ReferenceTranslation ==
    (qb.pc = "done" /\ WellFormed(qb.api.column_model, qb.terms)) =>
        qb.res = Built(Reference(qb.api.column_model, qb.terms))

\* the translation of [AND, [s2, 5], [y, a, 5]] by the client of b, whose
\* backend calls x s2 and y s1
C18_Witness ==
    /\ qb.pc = "done"
    /\ qb.api.collection = "b"
    /\ qb.terms = QList(<<QInt(2), QList(<<QStr("s2"), QInt(5)>>),
                          QList(<<QStr("y"), QStr("a"), QInt(5)>>)>>)
    /\ qb.res.err = ""
    /\ WellFormed(qb.api.column_model, qb.terms)

\* a term [field, ...] of more than three elements, or a range whose from
\* or to is not a leaf, the field being one the model resolves
Malformed(fm, t) ==
    /\ ~IsLeaf(t) /\ Len(t.items) >= 3 /\ IsField(fm, t.items[1])
    /\ \/ Len(t.items) > 3
       \/ ~IsLeaf(t.items[2]) \/ ~IsLeaf(t.items[3])

\* C19: a malformed term ([field, ...] with more than three elements,
\* whatever the field resolves to, or a range [field, from, to] whose from
\* or to is not a leaf) is rejected with the invalid-query error and gives
\* no query string.
C19_MalformedRejected ==
    (qb.pc = "done" /\ Malformed(qb.api.column_model, qb.terms)) => qb.res.err = "422"

(***************************************************************************)
(* SpecifyApi.query on its own: requests with cache=True for pages of the  *)
(* query on the clients, while their entries may expire and the backends   *)
(* may gain documents.  last records the call: the entry it found (hit,    *)
(* had: the docs stored for the page, meta: last_page and total), the      *)
(* requests it sent to the backend, the pages of the entry afterwards and  *)
(* what it returned.                                                       *)
(***************************************************************************)
ApiQuery(c, page) ==
    /\ c \in Range(qargs.collections)
    /\ \E r \in {FetchPage(bcache, c, page)} :
          /\ bcache' = [bcache EXCEPT ![c] = r.cache]
          /\ last' = [status |-> "api", coll |-> c, page |-> page,
                      hit |-> bcache[c].present,
                      stored |-> bcache[c].present /\ page \in DOMAIN bcache[c].pages,
                      had |-> IF bcache[c].present /\ page \in DOMAIN bcache[c].pages
                              THEN bcache[c].pages[page] ELSE << >>,
                      meta |-> IF bcache[c].present
                               THEN <<bcache[c].last_page, bcache[c].total>> ELSE << >>,
                      requests |-> IF r.fetched THEN 1 ELSE 0,
                      pages |-> r.cache.pages,
                      resp |-> r.resp]
    /\ UNCHANGED <<qargs, backend, rng, ccache, ttlLeft, served, notPager>>

\* the clients serve one collection's query; no request draws a number
InitApi ==
    /\ InitPager
    /\ Len(qargs.collections) = 1
    /\ rng = [i \in 1..2 |-> 0]

NextApi ==
    \/ \E c \in Range(Collections), page \in 0..CeilDiv(MaxDocs, DEFAULT_QUERY_ROWS) :
          ApiQuery(c, page)
    \/ \E c \in Range(Collections) : ExpireBackend(c)
    \/ \E c \in Range(Collections) : BackendGrows(c)

SpecApi == InitApi /\ [][NextApi]_vars

\* C20: a SpecifyApi.query call that finds the entry of its key returns the
\* stored docs without a backend request when the page is stored; sends
\* exactly one request and stores the page when the page is within
\* last_page and not stored; and returns no docs, with the entry's total
\* and last_page, without a request when the page is beyond last_page.
C20_CacheHit ==
    (last.status = "api" /\ last.hit) =>
        /\ last.stored => (last.requests = 0 /\ last.resp.docs = last.had)
        /\ (~last.stored /\ last.page <= last.meta[1]) =>
              /\ last.requests = 1
              /\ last.page \in DOMAIN last.pages
              /\ last.pages[last.page] = last.resp.docs
        /\ last.page > last.meta[1] => (last.requests = 0 /\ last.resp.docs = << >>)
        /\ <<last.resp.last_page, last.resp.total>> = last.meta

\* a call found the entry without the page, fetched the page and stored
\* its documents, after the backend had gained a document
C20_Witness ==
    /\ last.status = "api" /\ last.hit /\ ~last.stored
    /\ last.page <= last.meta[1]
    /\ last.requests = 1
    /\ last.resp.docs # << >>
    /\ last.meta[2] < Len(backend[last.coll])

(***************************************************************************)
(* SpecifyApi.query with cache=True as a task of the event loop: it runs   *)
(* from its start to `await self._query(...)`, where other requests run,   *)
(* and from the answer to its end.  A request in flight is a record        *)
(* [coll, page, kind, set, last_page, total]: kind is "miss" when          *)
(* cache.get gave nothing and "partial" when it gave an entry without the  *)
(* page; set tells which dict object cache_dict is (the number of          *)
(* cache.set calls on the key when the request got it), last_page and      *)
(* total are that object's.  race.sets counts the cache.set calls per      *)
(* collection, race.begun the requests begun.                              *)
(***************************************************************************)
\* most requests begun
MaxRequests == 3

RaceInit ==
    race = [flight |-> << >>, begun |-> 0, sets |-> [c \in Range(Collections) |-> 0],
            objs |-> << >>, cached |-> 0, tasks |-> << >>, model_gen |-> 0]

\* the flight without its i-th request
Landed(i) == [k \in 1..(Len(race.flight) - 1) |->
                 IF k < i THEN race.flight[k] ELSE race.flight[k + 1]]

\* a miss of collection c is waiting for its answer
MissPending(c) ==
    \E i \in 1..Len(race.flight) : race.flight[i].coll = c /\ race.flight[i].kind = "miss"

\* the request up to its first suspension: it returns at once when the
\* entry has the page or the page is beyond last_page, else it suspends
ApiBegin(c, page) ==
    /\ c \in Range(qargs.collections)
    /\ race.begun < MaxRequests
    /\ \E e \in {bcache[c]} :
          /\ race' = IF e.present /\ (page > e.last_page \/ PageStored(e, page))
                     THEN [race EXCEPT !.begun = @ + 1]
                     ELSE [race EXCEPT
                             !.begun = @ + 1,
                             !.flight = Append(@,
                                 IF e.present
                                 THEN [coll |-> c, page |-> page, kind |-> "partial",
                                       set |-> race.sets[c], last_page |-> e.last_page,
                                       total |-> e.total]
                                 ELSE [coll |-> c, page |-> page, kind |-> "miss",
                                       set |-> 0, last_page |-> 0, total |-> 0])]
          /\ last' = [status |-> "begin", coll |-> c, page |-> page, hit |-> e.present,
                      pending |-> MissPending(c)]
    /\ UNCHANGED <<qargs, backend, rng, ccache, bcache, ttlLeft, served,
                   mergeVars, hashVars, modelVars, syncVars, cacheVars, builderVars>>

\* the answer of the backend arrives: a miss makes a new cache_dict with
\* the one page and sets it; a partial hit puts the page into the
\* cache_dict it got, which the cache holds if no set replaced it
ApiResume(i) ==
    /\ i \in 1..Len(race.flight)
    /\ \E t \in {race.flight[i]} :
       \E f \in {api_query(ApiOf(t.coll), NoEntry, backend[t.coll], DEFAULT_QUERY_ROWS,
                           SortSolrname, qargs.asc, t.page)} :
          /\ bcache' = [bcache EXCEPT ![t.coll] =
                          IF t.kind = "miss" THEN f.cache
                          ELSE IF t.set = race.sets[t.coll]
                          THEN [@ EXCEPT !.pages =
                                   [q \in DOMAIN @ \cup {t.page} |->
                                       IF q = t.page THEN f.resp.docs ELSE @[q]]]
                          ELSE @]
          /\ race' = [race EXCEPT !.flight = Landed(i),
                                  !.sets[t.coll] = IF t.kind = "miss" THEN @ + 1 ELSE @]
          /\ last' = [status |-> "resume", coll |-> t.coll, page |-> t.page,
                      hit |-> t.kind = "partial", pending |-> FALSE]
    /\ UNCHANGED <<qargs, backend, rng, ccache, ttlLeft, served,
                   mergeVars, hashVars, modelVars, syncVars, cacheVars, builderVars>>

InitApiRace ==
    /\ PagerInit /\ MergeIdle /\ HashIdle /\ ModelIdle /\ CacheIdle /\ BuilderIdle
    /\ RaceInit
    /\ Len(qargs.collections) = 1
    /\ rng = [i \in 1..2 |-> 0]

NextApiRace ==
    \/ \E c \in Range(Collections), page \in 0..CeilDiv(MaxDocs, DEFAULT_QUERY_ROWS) :
          ApiBegin(c, page)
    \/ \E i \in 1..MaxRequests : ApiResume(i)

SpecApiRace == InitApiRace /\ [][NextApiRace]_vars

\* C21: a request that starts while the fetch of a miss on the same key is
\* pending finds the entry, and a page stored in an entry stays stored
\* whatever the other requests do.
C21_EntryBeforeSuspension ==
    [][/\ (last'.status = "begin" /\ last'.pending) => last'.hit
       /\ \A c \in Range(Collections) :
             bcache[c].present =>
                 /\ bcache'[c].present
                 /\ DOMAIN bcache[c].pages \subseteq DOMAIN bcache'[c].pages]_vars

(***************************************************************************)
(* CombinedApi.query as a task of the event loop.  It suspends where an    *)
(* `await self._api_map[c].query(...)` or `await pagers[c](...)` sends a   *)
(* request to a backend, which is where SpecifyApi.query does not find the *)
(* page in the client's cache; other requests run until the answer comes.  *)
(* race.objs are the cache_dict objects made so far, race.cached the one   *)
(* the combined cache holds for the key (0 for none), race.tasks the       *)
(* requests in flight.  A task holds its locals: page, obj (its            *)
(* cache_dict, whose ending_cursors are its cursors), isnew (cache.get     *)
(* gave None), results and names, docs and whether docs is still the       *)
(* last_trickle list, current_page, the position pc with the index i in    *)
(* the collections (pc "fetch") or in end_and_more_pages (pc "refill"),    *)
(* and the request it waits for.                                           *)
(***************************************************************************)
\* most requests in flight together
MaxRacers == 2

Put(f, k, v) == [x \in DOMAIN f \cup {k} |-> IF x = k THEN v ELSE f[x]]

\* `cache_dict['pages'][current_page] = p` for each p of new, from cp on
WritePages(pages, cp, new) ==
    [k \in 1..Max2(Len(pages), cp + Len(new)) |->
        IF k > cp /\ k <= cp + Len(new) THEN new[k - cp] ELSE pages[k]]

\* the state a step of a task works on: the objects, the clients' caches,
\* the counts of their sets, the cached object, and the task
RaceState(t) ==
    [objs |-> race.objs, bc |-> bcache, sets |-> race.sets, cached |-> race.cached, t |-> t]

\* `await api.query(..., page, cache=True)` on the client of c: the page
\* from the client's cache at once, or a request to wait for
RaceApi(s, c, page) ==
    The({IF ~f.fetched
         THEN [s EXCEPT !.t.results = Put(@, c, f.resp), !.t.i = @ + 1]
         ELSE [s EXCEPT !.t.back = s.t.pc, !.t.pc = "wait",
                        !.t.wait = IF s.bc[c].present
                                   THEN [coll |-> c, page |-> page, kind |-> "partial",
                                         set |-> s.sets[c],
                                         last_page |-> s.bc[c].last_page,
                                         total |-> s.bc[c].total]
                                   ELSE [coll |-> c, page |-> page, kind |-> "miss",
                                         set |-> 0, last_page |-> 0, total |-> 0]] :
           f \in {FetchPage(s.bc, c, page)}})

\* the answer arrives: SpecifyApi.query ends as in ApiResume and the task
\* has its response
RaceLand(s) ==
    The({[s EXCEPT
            !.bc[w.coll] = IF w.kind = "miss" THEN f.cache
                           ELSE IF w.set = s.sets[w.coll]
                           THEN [@ EXCEPT !.pages = Put(@, w.page, f.resp.docs)]
                           ELSE @,
            !.sets[w.coll] = IF w.kind = "miss" THEN @ + 1 ELSE @,
            !.t.results = Put(@, w.coll,
                              IF w.kind = "miss" THEN f.resp
                              ELSE [docs |-> f.resp.docs, last_page |-> w.last_page,
                                    total |-> w.total]),
            !.t.i = @ + 1,
            !.t.pc = s.t.back] :
           <<w, f>> \in {<<x, api_query(ApiOf(x.coll), NoEntry, backend[x.coll],
                                        DEFAULT_QUERY_ROWS, SortSolrname, qargs.asc, x.page)>> :
                            x \in {s.t.wait}}})

\* after `results = {...}`: a new cache_dict gets its total and last_page;
\* the page is checked against last_page; docs becomes last_trickle
RaceEnter(s) ==
    The({IF s.t.page > o.last_page
         THEN [s EXCEPT !.t.pc = "422"]
         ELSE [s EXCEPT !.objs[s.t.obj] = o, !.t.pc = "loop", !.t.docs = o.last_trickle,
                        !.t.alias = TRUE] :
           o \in {IF s.t.isnew
                  THEN [s.objs[s.t.obj] EXCEPT
                          !.total = SumTotals(s.t.results),
                          !.last_page = LastPageOf(SumTotals(s.t.results), DEFAULT_QUERY_ROWS)]
                  ELSE s.objs[s.t.obj]}})

\* one pass of `while True` up to the refills, as PagerPass, on the
\* cache_dict object and with the task's own current_page
RacePass(s, d) ==
    LET t == s.t
        o == s.objs[t.obj]
        all == t.docs \o d.out
        trickle == IF t.alias THEN all ELSE o.last_trickle
        at_end == SelectSeq(t.names, LAMBDA c : AtBufferEnd(t.results, d.cursors, c))
        more == SelectSeq(at_end, LAMBDA c : d.cursors[c].page < t.results[c].last_page)
        docs == RestOf(all)
        pages == WritePages(o.pages, t.current_page, FullPages(all))
        current_page == t.current_page + Len(FullPages(all))
    IN  IF d.crash
        THEN [s EXCEPT !.t.pc = "crash",
                       !.objs[t.obj].ending_cursors = d.cursors,
                       !.objs[t.obj].last_trickle = trickle]
        ELSE IF Len(at_end) = Len(t.names) /\ more = << >>
        THEN [s EXCEPT !.t.pc = "done", !.cached = t.obj,
                       !.objs[t.obj] =
                           [o EXCEPT !.ending_cursors = d.cursors,
                                     !.pages = IF docs # << >>
                                               THEN WritePages(pages, current_page, <<docs>>)
                                               ELSE pages,
                                     !.last_trickle = IF docs # << >> THEN << >> ELSE trickle,
                                     !.finished = TRUE]]
        ELSE IF current_page > t.page
        THEN [s EXCEPT !.t.pc = "done", !.cached = t.obj,
                       !.objs[t.obj] =
                           [o EXCEPT !.ending_cursors = d.cursors, !.pages = pages,
                                     !.last_trickle = docs]]
        ELSE [s EXCEPT !.t.pc = "refill", !.t.i = 1, !.t.more = more,
                       !.t.drop = Range(at_end) \ Range(more),
                       !.t.docs = docs, !.t.alias = FALSE, !.t.current_page = current_page,
                       !.objs[t.obj] =
                           [o EXCEPT !.ending_cursors = d.cursors, !.pages = pages,
                                     !.last_trickle = trickle]]

\* the task runs from where it is to its next suspension or to its end
RECURSIVE RaceRun(_)
RaceRun(s) ==
    CASE s.t.pc = "fetch" /\ s.t.i <= Len(qargs.collections) ->
            The({RaceRun(n) : n \in
                   {RaceApi(s, qargs.collections[s.t.i],
                            s.objs[s.t.obj].ending_cursors[qargs.collections[s.t.i]].page)}})
      [] s.t.pc = "fetch" /\ s.t.i > Len(qargs.collections) ->
            The({RaceRun(n) : n \in {RaceEnter(s)}})
      [] s.t.pc = "loop" ->
            The({RaceRun(n) : n \in
                   {RacePass(s, drip(s.t.results, s.t.names,
                                     s.objs[s.t.obj].ending_cursors, qargs.asc,
                                     SortSolrname, rng))}})
      [] s.t.pc = "refill" /\ s.t.i <= Len(s.t.more) ->
            The({RaceRun(n) : n \in
                   {RaceApi([s EXCEPT !.objs[s.t.obj].ending_cursors[c] =
                                         [page |-> @.page + 1, off |-> 0]],
                            c, s.objs[s.t.obj].ending_cursors[c].page + 1) :
                       c \in {s.t.more[s.t.i]}}})
      [] s.t.pc = "refill" /\ s.t.i > Len(s.t.more) ->
            The({RaceRun(n) : n \in
                   {[s EXCEPT !.t.pc = "loop",
                              !.t.results = [c \in DOMAIN @ \ s.t.drop |-> @[c]],
                              !.t.names = SelectSeq(@, LAMBDA c : c \notin s.t.drop)]}})
      [] OTHER -> s

\* the locals of a request for `page` that got the object obj from the cache
\* (isnew: it got None and obj is the cache_dict it will make)
NewTask(page, obj, isnew) ==
    [page |-> page, obj |-> obj, isnew |-> isnew, pc |-> "fetch", back |-> "fetch", i |-> 1,
     results |-> << >>, names |-> qargs.collections, docs |-> << >>, alias |-> FALSE,
     current_page |-> IF isnew THEN 0 ELSE Len(race.objs[obj].pages),
     more |-> << >>, drop |-> {},
     wait |-> [coll |-> "", page |-> 0, kind |-> "", set |-> 0, last_page |-> 0, total |-> 0],
     gen |-> race.model_gen]

\* what a step leaves: the shared state, the task if it waits, and the
\* outcome of the request if it ended
RaceCommit(s, rest, begun) ==
    /\ bcache' = s.bc
    /\ ccache' = IF s.cached = 0 THEN NoEntry ELSE s.objs[s.cached]
    /\ race' = [race EXCEPT !.objs = s.objs, !.sets = s.sets, !.cached = s.cached,
                            !.begun = begun,
                            !.tasks = IF s.t.pc = "wait" THEN Append(rest, s.t) ELSE rest]
    /\ last' = [status |-> CASE s.t.pc = "wait" -> "wait"
                             [] s.t.pc = "422" -> "422"
                             [] s.t.pc = "crash" -> "error"
                             [] s.t.pc = "hit" -> "ok"
                             [] s.t.page >= Len(s.objs[s.t.obj].pages) -> "error"
                             [] OTHER -> "ok",
                page |-> s.t.page, obj |-> s.t.obj, gen |-> s.t.gen,
                racing |-> rest # << >>]

\* a request begins and runs to its first suspension
RaceBegin(page) ==
    /\ race.begun < MaxRequests
    /\ Len(race.tasks) < MaxRacers
    /\ SortSolrname # "?"
    /\ IF race.cached # 0 /\ page < Len(race.objs[race.cached].pages)
       THEN /\ race' = [race EXCEPT !.begun = @ + 1]
            /\ last' = [status |-> "ok", page |-> page, obj |-> race.cached,
                        gen |-> race.model_gen, racing |-> race.tasks # << >>]
            /\ UNCHANGED <<bcache, ccache>>
       ELSE \E s \in {RaceRun(
                 IF race.cached # 0
                 THEN RaceState(NewTask(page, race.cached, FALSE))
                 ELSE [RaceState(NewTask(page, Len(race.objs) + 1, TRUE)) EXCEPT
                         !.objs = Append(@, [present |-> TRUE, pages |-> << >>,
                                             ending_cursors |-> ZeroCursors, total |-> 0,
                                             last_page |-> 0, last_trickle |-> << >>,
                                             finished |-> FALSE])])} :
               RaceCommit(s, race.tasks, race.begun + 1)
    /\ UNCHANGED <<qargs, backend, rng, ttlLeft, served,
                   mergeVars, hashVars, modelVars, syncVars, cacheVars, builderVars>>
\* the answer a task waits for arrives and the task runs on
RaceResume(i) ==
    /\ i \in 1..Len(race.tasks)
    /\ \E s \in {RaceRun(RaceLand(RaceState(race.tasks[i])))} :
          RaceCommit(s, [k \in 1..(Len(race.tasks) - 1) |->
                            IF k < i THEN race.tasks[k] ELSE race.tasks[k + 1]],
                     race.begun)
    /\ UNCHANGED <<qargs, backend, rng, ttlLeft, served,
                   mergeVars, hashVars, modelVars, syncVars, cacheVars, builderVars>>

InitRace ==
    /\ PagerInit /\ MergeIdle /\ HashIdle /\ ModelIdle /\ CacheIdle /\ BuilderIdle
    /\ RaceInit
    /\ json = [c \in Range(Collections) |-> 1]
    /\ qargs.sort \in {"", COLLECTION_SOLRNAME}
    /\ qargs.collections[1] = Collections[1]

NextRace ==
    \/ \E page \in 0..CeilDiv(2 * MaxDocs, DEFAULT_QUERY_ROWS) : RaceBegin(page)
    \/ \E i \in 1..MaxRacers : RaceResume(i)

SpecRace == InitRace /\ [][NextRace]_vars

\* no request is in flight
Quiet == race.tasks = << >>

\* the number of times document i of collection c is in docs
TimesIn(docs, c, i) ==
    Cardinality({k \in 1..Len(docs) : docs[k].coll = c /\ docs[k].spid = i})

\* C22: after requests for the same key that ran together, on an empty
\* cache or on an entry that held pages, the entry is as requests one after
\* the other leave it: no document is in its pages twice, its pages and
\* last_trickle hold no more documents than its cursors have passed, and
\* once the pages 0..last_page are there every document of every selected
\* backend is in them exactly once.
C22_ConcurrentAsSequential ==
    (Quiet /\ ccache.present) =>
        /\ \A c \in Range(qargs.collections) : \A i \in 1..Len(backend[c]) :
              TimesIn(Concat(ccache.pages), c, i) <= 1
        /\ Len(Concat(ccache.pages)) <= Consumed(ccache)
        /\ AllPagesCommitted =>
              \A c \in Range(qargs.collections) : \A i \in 1..Len(backend[c]) :
                  TimesIn(Concat(ccache.pages), c, i) = 1

(***************************************************************************)
(* Requests in flight while model(poke=True) rebinds the clients and       *)
(* replaces the combined cache.  race.model_gen counts the caches made by  *)
(* _new_cache since start(); a task holds the count at its beginning.      *)
(***************************************************************************)
\* model(poke=True) as Rebind, with the requests in flight left as they
\* are: _new_cache leaves the new cache without an entry for the key
RaceRebind ==
    /\ callsLeft.pokes > 0
    /\ \E cl \in {CheckAll(clients, 1)} :
       \E r \in {ModelCall(cl, co, Stale(cl, co.apis))} :
          /\ clients' = r.clients
          /\ co' = r.co
          /\ ccache' = IF r.co.caches # co.caches THEN NoEntry ELSE ccache
          /\ race' = IF r.co.caches # co.caches
                     THEN [race EXCEPT !.cached = 0, !.model_gen = @ + 1]
                     ELSE race
    /\ callsLeft' = [callsLeft EXCEPT !.pokes = @ - 1]
    /\ UNCHANGED <<disc, json, envLeft, tasks, qargs, backend, rng, bcache, ttlLeft,
                   served, last, mergeVars, hashVars, modelVars, cacheVars, builderVars>>

\* a request that begins while every client is bound to the combined model
RaceBeginBound(page) ==
    /\ \A c \in Range(Collections) : ApiOf(c).column_model.bound
    /\ RaceBegin(page)

InitRaceRebind ==
    /\ RebindInit /\ MergeIdle /\ HashIdle /\ ModelIdle /\ CacheIdle /\ BuilderIdle
    /\ RaceInit
    /\ qargs.collections[1] = Collections[1]
    /\ rng = [i \in 1..2 |-> 0]
    /\ qargs.asc
    /\ json = [c \in Range(Collections) |-> 1]
    /\ \A c \in Range(qargs.collections) : backend[c] # << >>

NextRaceRebind ==
    \/ \E page \in 0..1 : RaceBeginBound(page)
    \/ \E i \in 1..MaxRacers : RaceResume(i)
    \/ \E c \in Range(Collections), v \in SchemaVersions : SchemaChanges(c, v)
    \/ RaceRebind

SpecRaceRebind == InitRaceRebind /\ [][NextRaceRebind]_vars

\* C23: a request that began before a rebind replaced the combined cache
\* and ends after it leaves nothing in the new cache: the entry of the key
\* there is not the cache_dict of that request.
C23_InFlightNotStored ==
    (last.status \in {"ok", "error"} /\ last.gen < race.model_gen) =>
        race.cached # last.obj

(***************************************************************************)
(* Two backend FieldModels, merged as _sync_models merges them, and then   *)
(* bound to the merged model with set_follow_model, as _sync_models does   *)
(* at every rebind.  sm counts the calls and holds the last one.           *)
(***************************************************************************)
\* most calls of set_follow_model
MaxFollows == 3

FollowCalls == IF sm.pc = "follow" THEN sm.calls ELSE 0

\* fmA.set_follow_model(combined_model)
FollowA ==
    /\ pm.pc = "done"
    /\ FollowCalls < MaxFollows
    /\ \E r \in {set_follow_model(fmA, pm.model)} :
          /\ fmA' = r.fm
          /\ sm' = [pc |-> "follow", calls |-> FollowCalls + 1, err |-> r.err, on |-> "A",
                    again |-> fmA.bound]
    /\ UNCHANGED <<fmB, pm, notModel>>

\* fmB.set_follow_model(combined_model)
FollowB ==
    /\ pm.pc = "done"
    /\ FollowCalls < MaxFollows
    /\ \E r \in {set_follow_model(fmB, pm.model)} :
          /\ fmB' = r.fm
          /\ sm' = [pc |-> "follow", calls |-> FollowCalls + 1, err |-> r.err, on |-> "B",
                    again |-> fmB.bound]
    /\ UNCHANGED <<fmA, pm, notModel>>

NextFollow ==
    \/ PairMerge
    \/ FollowA
    \/ FollowB

SpecFollow == InitModel /\ [][NextFollow]_vars

\* the pairs own solrname -> solrname of the same column in follow, where
\* the two differ
RenamedPairs(fm, follow) ==
    {<<fm.columns[i].solrname, GetColumn(follow, fm.columns[i].colname).solrname>> :
        i \in {j \in 1..Len(fm.columns) :
                 fm.columns[j].solrname # GetColumn(follow, fm.columns[j].colname).solrname}}

PairsOf(f) == {<<k, f[k]>> : k \in DOMAIN f}

\* C24: after set_follow_model(follow) on a model, the first time or
\* again, changed_solrnames is exactly the pairs own solrname -> solrname
\* in follow of the columns whose two names differ.
C24_ChangedSolrnamesExact ==
    (sm.pc = "follow" /\ ~sm.err) =>
        \E fm \in {IF sm.on = "A" THEN fmA ELSE fmB} :
            PairsOf(fm.changed_solrnames) = RenamedPairs(fm, pm.model)

(***************************************************************************)
(* start() and model(poke=True) over backends whose fldmodel.json never    *)
(* changes: every check_if_stale fetches what start() fetched.             *)
(***************************************************************************)
InitStale ==
    /\ disc \in (SUBSET Range(Collections)) \ {{}}
    /\ json \in [Range(Collections) -> SchemaVersions]
    /\ envLeft = 0
    /\ clients = << >>
    /\ co = [has_apis |-> FALSE, apis |-> << >>, model_id |-> NoObject,
             model |-> NoFieldModel, collections |-> << >>, ready |-> FALSE,
             caches |-> 1, objects |-> 0]
    /\ tasks = << >>
    /\ callsLeft = [boot |-> 1, starts |-> 0, pokes |-> MaxPokes]
    /\ MergeIdle /\ HashIdle /\ ModelIdle /\ PagerIdle /\ CacheIdle /\ BuilderIdle /\ RaceIdle

NextStale ==
    \/ Boot
    \/ \E t \in 1..Len(tasks) : StartList(t)
    \/ \E t \in 1..Len(tasks) : StartApi(t)
    \/ PokeBegin
    \/ \E t \in 1..Len(tasks) : PokeCheck(t)
    \/ \E t \in 1..Len(tasks) : PokeFinish(t)

SpecStale == InitStale /\ [][NextStale]_vars

\* C25: a check_if_stale that fetches the field model the client fetched
\* before leaves the client's column_model and stale as they were, and
\* after the rebind of start() it returns false.
C25_UnchangedModelNotStale ==
    [][\A t \in 1..Len(tasks) :
          PokeCheck(t) => /\ clients' = clients
                          /\ ~tasks'[t].stale_poke]_vars

(***************************************************************************)
(* start() at boot and the start() that list_collections schedules when    *)
(* the discovery page lists another set, over backends that serve any of   *)
(* the field models.  co.apis stands for apis and _api_map, which start()  *)
(* assigns together, and co.collections for _collections and short_names,  *)
(* which it assigns together after model(poke=False).                      *)
(***************************************************************************)
InitRestart ==
    /\ disc \in (SUBSET Range(Collections)) \ {{}}
    /\ json \in [Range(Collections) -> SchemaVersions]
    /\ envLeft = MaxEnvChanges
    /\ clients = << >>
    /\ co = [has_apis |-> FALSE, apis |-> << >>, model_id |-> NoObject,
             model |-> NoFieldModel, collections |-> << >>, ready |-> FALSE,
             caches |-> 1, objects |-> 0]
    /\ tasks = << >>
    /\ callsLeft = [boot |-> 1, starts |-> MaxRestarts, pokes |-> 0]
    /\ MergeIdle /\ HashIdle /\ ModelIdle /\ PagerIdle /\ CacheIdle /\ BuilderIdle /\ RaceIdle

NextRestart ==
    \/ EnvDiscovery
    \/ Boot
    \/ ListCollections
    \/ \E t \in 1..Len(tasks) : StartList(t)
    \/ \E t \in 1..Len(tasks) : StartApi(t)

SpecRestart == InitRestart /\ [][NextRestart]_vars

\* the collections of the clients in apis, in order
ApiCollections(c, cl) == [j \in 1..Len(c.apis) |-> cl[c.apis[j]].collection]

\* C26: once the service is ready, apis and _api_map name the same
\* collections as _collections and short_names at every moment, and when
\* the start() that list_collections scheduled has had the answer of its
\* last backend start, all of them name the set that this start()
\* discovered.
C26_NeverAMixture ==
    [][/\ co'.ready => ApiCollections(co', clients') = co'.collections
       /\ \A t \in 1..Len(tasks) :
             (co.ready /\ StartApi(t) /\ tasks[t].i = Len(tasks[t].apis)) =>
                 /\ co'.ready
                 /\ co'.collections = [j \in 1..Len(tasks[t].apis) |->
                                          clients'[tasks[t].apis[j]].collection]]_vars

(***************************************************************************)
(* CombinedApi.query, one request after the other, with every pass of      *)
(* `while True` a step of its own: race.run is the request in progress as  *)
(* PagerBegin and PagerPass make it, and `last` holds what the dripper of   *)
(* the last pass was given and what it did.                                *)
(***************************************************************************)
NoRun == [st |-> "none"]

\* the request ends: the entry is set, or left as the loop changed it
LoopEnd(r) ==
    /\ ccache' = CASE r.st = "done" -> EntryOf(r)
                   [] r.st = "crash" /\ ccache.present -> EntryOf(r)
                   [] OTHER -> ccache
    /\ bcache' = r.bc
    /\ served' = IF r.st \in {"done", "hit"} /\ r.page < Len(r.e.pages)
                 THEN [served EXCEPT ![r.page] = r.e.pages[r.page + 1]]
                 ELSE served

\* a request begins and runs up to the drip loop
LoopBegin(page) ==
    /\ race.run.st \notin {"loop"}
    /\ race.begun < MaxRequests
    /\ \E r \in {PagerBegin(page)} :
          /\ race' = [race EXCEPT !.run = r, !.begun = @ + 1]
          /\ IF r.st = "loop"
             THEN UNCHANGED <<ccache, bcache, served>>
             ELSE LoopEnd(r)
          /\ last' = [status |-> r.st, page |-> page]
    /\ UNCHANGED <<qargs, backend, rng, ttlLeft,
                   mergeVars, hashVars, modelVars, syncVars, cacheVars, builderVars>>

\* one pass of the loop: the dripper, the pages, the refills
LoopPass ==
    /\ race.run.st = "loop"
    /\ \E r \in {race.run} :
       \E d \in {drip(r.results, r.names, r.cursors, qargs.asc, SortSolrname, rng)} :
       \E n \in {PagerPass(r, d)} :
          /\ race' = [race EXCEPT !.run = n]
          /\ IF n.st = "loop"
             THEN UNCHANGED <<ccache, bcache, served>>
             ELSE LoopEnd(n)
          /\ last' = [status |-> "drip", page |-> r.page, results |-> r.results,
                      names |-> r.names, cursors |-> r.cursors, out |-> d.out,
                      after |-> d.cursors, crash |-> d.crash, ended |-> n.st # "loop"]
    /\ UNCHANGED <<qargs, backend, rng, ttlLeft,
                   mergeVars, hashVars, modelVars, syncVars, cacheVars, builderVars>>

InitLoop ==
    /\ PagerInit /\ MergeIdle /\ HashIdle /\ ModelIdle /\ CacheIdle /\ BuilderIdle
    /\ race = [run |-> NoRun, begun |-> 0]

NextLoop ==
    \/ \E page \in 0..CeilDiv(2 * MaxDocs, DEFAULT_QUERY_ROWS) : LoopBegin(page)
    \/ LoopPass

SpecLoop == InitLoop /\ [][NextLoop]_vars

\* the collections of the last pass that had documents buffered
Buffered == {c \in Range(last.names) : last.results[c].docs # << >>}

\* the documents of collection c among the first j the dripper yielded
YieldedOf(c, j) == Cardinality({i \in 1..j : last.out[i].coll = c})

\* the offset of collection c after the dripper yielded j documents
OffsetAfter(c, j) == last.cursors[c].off + YieldedOf(c, j)

\* the last pass ran the random or the by-field dripper to its return
DrippedByChoice ==
    /\ last.status = "drip" /\ ~last.crash
    /\ SortSolrname # COLLECTION_SOLRNAME

\* C27: the random and the by-field dripper yield a document only while
\* every collection with buffered documents has an unread one, the
\* document being the next unread of its collection; they return when one
\* of these collections is exhausted; a call moves every offset by the
\* number of documents it yielded of that collection, never past the end
\* of the buffer.
C27_DripUntilOneExhausted ==
    DrippedByChoice =>
        /\ \A j \in 0..(Len(last.out) - 1) :
              /\ \A c \in Buffered : OffsetAfter(c, j) < Len(last.results[c].docs)
              /\ \E c \in {last.out[j + 1].coll} :
                    /\ c \in Buffered
                    /\ last.out[j + 1] = last.results[c].docs[OffsetAfter(c, j) + 1]
        /\ \E c \in Buffered : OffsetAfter(c, Len(last.out)) = Len(last.results[c].docs)
        /\ \A c \in Range(last.names) :
              /\ last.after[c].off = OffsetAfter(c, Len(last.out))
              /\ last.after[c].page = last.cursors[c].page
              /\ c \in Buffered => last.after[c].off <= Len(last.results[c].docs)

\* a dripper that chooses yielded documents of two collections, one of them
\* read from the middle of its buffer or from a later backend page, before
\* one was exhausted
C27_Witness ==
    /\ DrippedByChoice
    /\ Cardinality(Buffered) = 2
    /\ Len(last.out) >= 2
    /\ \A c \in Buffered : YieldedOf(c, Len(last.out)) >= 1
    /\ \E c \in Buffered : last.cursors[c].off > 0 \/ last.cursors[c].page > 0

\* the position of collection c in name order
NameRank(c) == CHOOSE j \in 1..Len(Collections) : Collections[j] = c

\* the buffered collection that is first in name order, or last when asc
\* is false
FirstBuffered ==
    CHOOSE c \in Buffered :
        \A o \in Buffered : IF qargs.asc THEN NameRank(c) <= NameRank(o)
                            ELSE NameRank(c) >= NameRank(o)

MaxFailures == 1

\* the refills up to the first one that sends a request to the backend,
\* which fails: the cursors as they are then, and whether there is one
RECURSIVE RefillFails(_, _, _)
RefillFails(more, i, acc) ==
    IF i > Len(more) THEN [acc EXCEPT !.failed = FALSE]
    ELSE The({IF f.fetched
              THEN [acc EXCEPT !.failed = TRUE,
                               !.cursors[more[i]] = [page |-> @.page + 1, off |-> 0]]
              ELSE RefillFails(more, i + 1,
                               [acc EXCEPT !.results[more[i]] = f.resp,
                                           !.cursors[more[i]] =
                                               [page |-> @.page + 1, off |-> 0]]) :
                f \in {FetchPage(acc.bc, more[i], acc.cursors[more[i]].page + 1)}})

\* a pass of the loop whose refill fails: .failed is whether the pass comes
\* to a refill that sends a request, .e and .cursors are cache_dict and its
\* cursors when the exception leaves query
FailingPass(r, d) ==
    LET all == r.docs \o d.out
        at_end == SelectSeq(r.names, LAMBDA c : AtBufferEnd(r.results, d.cursors, c))
        more == SelectSeq(at_end, LAMBDA c : d.cursors[c].page < r.results[c].last_page)
        current_page == r.current_page + Len(FullPages(all))
    IN  IF \/ d.crash
           \/ Len(at_end) = Len(r.names) /\ more = << >>
           \/ current_page > r.page
        THEN [r EXCEPT !.st = "no refill"]
        ELSE The({[r EXCEPT !.st = IF f.failed THEN "crash" ELSE "no refill",
                            !.cursors = f.cursors,
                            !.e.pages = r.e.pages \o FullPages(all),
                            !.e.last_trickle = IF r.alias THEN all ELSE r.e.last_trickle] :
                    f \in {RefillFails(more, 1, [results |-> r.results, cursors |-> d.cursors,
                                                 bc |-> r.bc, failed |-> FALSE])}})

\* the pass of the request in progress ends with the exception of a refill
LoopFail ==
    /\ race.run.st = "loop"
    /\ race.fails < MaxFailures
    /\ \E r \in {race.run} :
       \E n \in {FailingPass(r, drip(r.results, r.names, r.cursors, qargs.asc,
                                     SortSolrname, rng))} :
          /\ n.st = "crash"
          /\ race' = [race EXCEPT !.run = n, !.fails = @ + 1]
          /\ LoopEnd(n)
          /\ last' = [status |-> "failed", page |-> r.page, had |-> ccache.present]
    /\ UNCHANGED <<qargs, backend, rng, ttlLeft,
                   mergeVars, hashVars, modelVars, syncVars, cacheVars, builderVars>>

InitFail ==
    /\ PagerInit /\ MergeIdle /\ HashIdle /\ ModelIdle /\ CacheIdle /\ BuilderIdle
    /\ race = [run |-> NoRun, begun |-> 0, fails |-> 0]
    /\ qargs.collections[1] = Collections[1]

NextFail ==
    \/ \E page \in 0..CeilDiv(2 * MaxDocs, DEFAULT_QUERY_ROWS) : LoopBegin(page)
    \/ LoopPass
    \/ LoopFail

SpecFail == InitFail /\ [][NextFail]_vars

\* C29: whatever request to a backend failed in the middle of a request on
\* an entry of the cache, the entry stays consistent: no document is in its
\* pages twice, and once a retry has brought the pages 0..last_page every
\* document of every selected backend is in them exactly once.
C29_ConsistentAfterFailure ==
    (ccache.present /\ race.run.st # "loop") =>
        /\ \A c \in Range(qargs.collections) : \A i \in 1..Len(backend[c]) :
              TimesIn(Concat(ccache.pages), c, i) <= 1
        /\ AllPagesCommitted =>
              /\ Len(Concat(ccache.pages)) = ccache.total
              /\ \A c \in Range(qargs.collections) : \A i \in 1..Len(backend[c]) :
                    TimesIn(Concat(ccache.pages), c, i) = 1

(***************************************************************************)
(* The pages of one query requested in sequence, 0, 1, 2, ..., from an     *)
(* empty cache, next to the same page requested first.                     *)
(***************************************************************************)
\* the caches of the clients when none holds an entry
NoBackendEntries == [c \in Range(Collections) |-> NoEntry]

\* query(page) when neither the combined cache nor a client's cache holds
\* an entry of the query: the run at its end
direct(page) ==
    The({PagerRun(r) :
            r \in {PagerEnter(NoEntry, ZeroCursors, fetched, page) :
                      fetched \in {FetchAll(ZeroCursors, 1,
                                            [results |-> << >>,
                                             bc |-> NoBackendEntries])}}})

\* the page after the pages that were served
NextPage == Cardinality({p \in PageNumbers : served[p] # << >>})

\* the request for the next page of the sequence, from its start to its end
SeqQuery ==
    /\ NextPage \in PageNumbers
    /\ \E page \in {NextPage} :
       \E r \in {query(page)} :
       \E ok \in {r.st \in {"hit", "done"} /\ page < Len(r.e.pages)} :
          /\ ccache' = CASE r.st = "done" -> EntryOf(r)
                         [] r.st = "crash" /\ ccache.present -> EntryOf(r)
                         [] OTHER -> ccache
          /\ bcache' = r.bc
          /\ served' = IF ok THEN [served EXCEPT ![page] = r.e.pages[page + 1]] ELSE served
          /\ last' = [status |-> IF ok THEN "ok" ELSE "error", page |-> page, st |-> r.st,
                      trickle |-> ccache.present /\ ccache.last_trickle # << >>]
    /\ UNCHANGED <<qargs, backend, rng, ttlLeft, notPager>>

InitSeq == InitPager

NextSeq == SeqQuery

SpecSeq == InitSeq /\ [][NextSeq]_vars

\* C30: a page that the requests for the pages 0, 1, ..., p in sequence
\* served has the documents, in the order, that the request for p alone
\* gives on an empty cache, whichever dripper the sort selects.
C30_HistoryIndependent ==
    \A p \in 0..CeilDiv(2 * MaxDocs, DEFAULT_QUERY_ROWS) :
        served[p] # << >> =>
            \E r \in {direct(p)} :
                /\ r.st = "done"
                /\ p < Len(r.e.pages)
                /\ r.e.pages[p + 1] = served[p]

\* the pages 0, 1 and 2 of two collections were served in sequence, and the
\* request for page 2 ran the drip loop from the documents the request
\* before it left in last_trickle
C30_Witness ==
    /\ BothHoldDocuments
    /\ \A p \in 0..2 : served[p] # << >>
    /\ last.status = "ok" /\ last.page = 2 /\ last.st = "done" /\ last.trickle
\* C31: in every cache_dict the keys of pages are 0..n-1 (the indices 1..n
\* of the sequence), and no step of a request puts other documents in a
\* page that the cache_dict held before the step.
C31_PagesNeverReplaced ==
    [][\A o \in 1..Len(race.objs) :
          /\ DOMAIN race.objs'[o].pages = 1..Len(race.objs'[o].pages)
          /\ \A k \in 1..Len(race.objs[o].pages) :
                /\ k <= Len(race.objs'[o].pages)
                /\ race.objs'[o].pages[k] = race.objs[o].pages[k]]_vars

(***************************************************************************)
(* The cache keys of any two query terms, among them the terms whose order *)
(* matters: ["field", "search"] and ["field", from, to], alone or inside   *)
(* a combinator.                                                           *)
(***************************************************************************)
\* ["colname or solrname", "search term"]
FieldTerms == {ListTerm(<<x, y>>) : x \in Leaves, y \in Leaves}

\* ["colname or solrname", from_value, to_value]
RangeTerms == {ListTerm(<<f, x, y>>) : f \in Leaves, x \in Leaves, y \in Leaves}

\* a field term, a range, or [OR, t, t] of leaves, field terms and ranges
OrderedTerms ==
    FieldTerms \cup RangeTerms \cup
    {ListTerm(<<IntLeaf(<<49>>), x, y>>) :
        x \in Leaves \cup FieldTerms \cup RangeTerms,
        y \in Leaves \cup FieldTerms \cup RangeTerms}

InitKeys ==
    /\ q1 \in OrderedTerms
    /\ q2 \in OrderedTerms
    /\ hargs \in [sort : {StrLeaf(<<102>>)}, asc : BOOLEAN,
                  collections : {<<StrLeaf(<<98>>), StrLeaf(<<97>>)>>}]
    /\ hres = [pc |-> "in"]
    /\ MergeIdle /\ ModelIdle /\ SyncIdle /\ PagerIdle /\ CacheIdle /\ BuilderIdle /\ RaceIdle

NextKeys == HashKeys

SpecKeys == InitKeys /\ [][NextKeys]_vars

\* C32: two query terms have the same per-backend key or the same combined
\* key only if they are equal up to permutation of the terms within a
\* combinator; a range and the range with its bounds exchanged, a field
\* term and the term with field and search exchanged, have different keys.
C32_SharedKeyOnlyIfPermuted ==
    (hres.pc = "done" /\ (hres.key1 = hres.key2 \/ hres.keys1 = hres.keys2)) =>
        q2 \in Variants(q1)

(***************************************************************************)
(* The sort parameter of the requests: CombinedApi.query hands the         *)
(* combined name of the sort field to SpecifyApi.query of each selected    *)
(* client, which resolves it, and SpecifyApi._query resolves the result    *)
(* again before it writes params['sort'].  last records the request that   *)
(* the client of a collection sends for its first page.                    *)
(***************************************************************************)
\* the field of params['sort'] in the request of a client for the sort
\* argument that CombinedApi.query hands it, "" without the parameter
sort_param(client, sort) ==
    The({raw.sorted_on :
            raw \in {backend_query(client, << >>, DEFAULT_QUERY_ROWS,
                                   IF sort = "" THEN ""
                                   ELSE ResolveSolrname(client.column_model, sort),
                                   qargs.asc, 0)}})

\* the client of c does not find the query in its cache and sends the
\* request for its first page
SortRequest(c) ==
    /\ c \in Range(qargs.collections)
    /\ SortSolrname # "?"
    /\ ~bcache[c].present
    /\ \E r \in {FetchPage(bcache, c, 0)} :
          /\ bcache' = [bcache EXCEPT ![c] = r.cache]
          /\ last' = [status |-> "sent", coll |-> c,
                      sort |-> sort_param(ApiOf(c), SortSolrname),
                      dir |-> IF qargs.asc THEN "asc" ELSE "desc",
                      docs |-> r.resp.docs]
    /\ UNCHANGED <<qargs, backend, rng, ccache, ttlLeft, served, notPager>>

InitSort == InitPager

NextSort == \E c \in Range(Collections) : SortRequest(c)

SpecSort == InitSort /\ [][NextSort]_vars

\* the schema of the client's backend has the field that the combined
\* model calls solrname
SchemaHas(client, solrname) ==
    \E j \in 1..Len(client.column_model.columns) :
        /\ HasColumn(co.model, client.column_model.columns[j].colname)
        /\ GetColumn(co.model, client.column_model.columns[j].colname).solrname = solrname

\* the name the client's backend has for that field
OwnName(client, solrname) ==
    The({client.column_model.columns[j].solrname :
            j \in {k \in 1..Len(client.column_model.columns) :
                      /\ HasColumn(co.model, client.column_model.columns[k].colname)
                      /\ GetColumn(co.model,
                                   client.column_model.columns[k].colname).solrname
                            = solrname}})

\* C33: the request of a client whose backend has the sort field carries
\* the sort parameter on the backend's own name of the field, in the
\* requested direction, also when the merge renamed the field for this
\* backend; the request of a client whose backend lacks the field carries
\* none.
C33_SortOnOwnName ==
    (last.status = "sent" /\ SortedOnField) =>
        IF SchemaHas(ApiOf(last.coll), SortSolrname)
        THEN /\ last.sort = OwnName(ApiOf(last.coll), SortSolrname)
             /\ last.dir = IF qargs.asc THEN "asc" ELSE "desc"
        ELSE last.sort = ""

\* the backend page of collection c is further after the last pass
PageAdvanced(c) ==
    /\ c \in Range(race.run.names)
    /\ race.run.cursors[c].page > last.cursors[c].page

\* the dripper of the last pass ran on results in which a collection has
\* buffered documents, and the pass ended the request, or moved a
\* collection to its next backend page, or removed an exhausted collection
\* from the results
C34_EveryPassProgresses ==
    last.status = "drip" =>
        /\ Buffered # {}
        /\ \/ last.ended
           \/ \E c \in Range(last.names) : PageAdvanced(c)
           \/ Range(race.run.names) # Range(last.names)

\* C34: every request that entered the drip loop leaves it, and every pass
\* on the way progresses.
C34_RequestEnds ==
    /\ []C34_EveryPassProgresses
    /\ (race.run.st = "loop") ~> (race.run.st # "loop")

\* the requests whose first collection is the first of the coordinator
InitLoopFair == InitLoop /\ qargs.collections[1] = Collections[1]

\* the backends answer: the passes of a request that began go on
SpecLoopFair == InitLoopFair /\ [][NextLoop]_vars /\ WF_vars(LoopPass)

\* a pass that moved a collection to its next backend page and removed an
\* exhausted one, after which the request goes on
C34_Witness ==
    /\ last.status = "drip" /\ ~last.ended
    /\ \E c \in Range(last.names) : PageAdvanced(c)
    /\ Range(race.run.names) # Range(last.names)
    /\ race.run.st = "loop"

(***************************************************************************)
(* Backend queries while model(poke=True) refreshes the clients.  A        *)
(* SpecifyApi._query waits for the answer to its select request; when it   *)
(* resumes it casts the fields of the documents with                       *)
(* self.column_model._type_casts and renames them with changed_solrnames.  *)
(* last records what it found: the client, whether a model(poke=True) was  *)
(* between its gather and its _sync_models, and whether the column model   *)
(* was bound.                                                              *)
(***************************************************************************)
\* a model(poke=True) is in its gather or about to resume from it
Poking == \E t \in 1..Len(tasks) : tasks[t].kind = "model" /\ tasks[t].pc \in {"gather", "resume"}

\* the _query of the client id resumes from its select request
QueryResumes(id) ==
    /\ co.ready
    /\ id \in Range(co.apis)
    /\ last' = [status |-> "post", client |-> id, poking |-> Poking,
                bound |-> clients[id].column_model.bound,
                casts |-> DOMAIN clients[id].column_model.type_casts]
    /\ UNCHANGED <<qargs, backend, rng, ccache, bcache, ttlLeft, served, notPager>>

InitPoke == InitStale

NextPoke ==
    \/ NextStale
    \/ \E id \in 1..(2 * Len(Collections)) : QueryResumes(id)

SpecPoke == InitPoke /\ [][NextPoke]_vars

\* C35: a backend query that resumes while model(poke=True) refreshes the
\* clients finds the client's column model bound to a follow model, with
\* its type casts.
C35_QuerySeesBoundModel ==
    (last.status = "post" /\ last.poking) =>
        /\ last.bound
        /\ last.casts # {}

(***************************************************************************)
(* merged_model and its inputs: fmA.merged_model(fmB), and the same call   *)
(* once more on the models as the first call left them.                    *)
(***************************************************************************)
\* fmA.merged_model(fmB), then fmA.merged_model(fmB) again
MergeTwice ==
    /\ pm.pc = "init"
    /\ \E r \in {merged_model(fmA, fmB)} :
       \E again \in {merged_model(r.self, r.other)} :
           /\ pm' = [pc |-> IF r.err THEN "error" ELSE "done", model |-> r.model,
                     selfBefore |-> fmA, otherBefore |-> fmB,
                     againErr |-> again.err, again |-> again.model]
           /\ fmA' = r.self
           /\ fmB' = r.other
    /\ UNCHANGED <<sm, notModel>>

InitFrame == InitModel

NextFrame == MergeTwice

SpecFrame == InitFrame /\ [][NextFrame]_vars

\* C36: merged_model leaves both input models with every column as it was,
\* displaycolidx included, and the same call once more gives the same
\* model.
C36_InputsUnchanged ==
    pm.pc = "done" =>
        /\ fmA = pm.selfBefore
        /\ fmB = pm.otherBefore
        /\ ~pm.againErr
        /\ pm.again = pm.model

=============================================================================
